---------------------------- MODULE Spec2Model ----------------------------
(***************************************************************************)
(* Model of the ThemeDeck backend (src/main.py): the yt-dlp tool locator,  *)
(* the acquisition chain of update_yt_dlp and the validation of a          *)
(* downloaded binary.                                                      *)
(*                                                                         *)
(* Text is modelled as a sequence of one-character strings, so that        *)
(* len(), slicing and substring search are the ones of the source.  The    *)
(* only whitespace character of the acquisition chain's texts is the       *)
(* space.                                                                  *)
(***************************************************************************)
EXTENDS Integers, Sequences, FiniteSets, TLC

(***************************************************************************)
(* Text literals of the source.                                            *)
(***************************************************************************)
\* "Failed to update yt-dlp: "
TxtFailedToUpdate == <<"F","a","i","l","e","d"," ","t","o"," ","u","p","d",
    "a","t","e"," ","y","t","-","d","l","p",":"," ">>
\* "; venv: "
TxtVenvLabel == <<";"," ","v","e","n","v",":"," ">>
\* "; pip: "
TxtPipLabel == <<";"," ","p","i","p",":"," ">>
\* "; "
TxtSemi == <<";"," ">>
\* "..."
TxtDots == <<".",".",".">>
\* " | "
TxtBar == <<" ","|"," ">>
\* ": "
TxtColon == <<":"," ">>
\* "curl "
TxtCurl == <<"c","u","r","l"," ">>
\* "wget "
TxtWget == <<"w","g","e","t"," ">>
\* "urllib "
TxtUrllib == <<"u","r","l","l","i","b"," ">>
\* "python3 not found"
TxtPython3NotFound == <<"p","y","t","h","o","n","3"," ","n","o","t"," ","f",
    "o","u","n","d">>
\* "venv creation failed"
TxtVenvCreationFailed == <<"v","e","n","v"," ","c","r","e","a","t","i","o",
    "n"," ","f","a","i","l","e","d">>
\* "venv pip install failed"
TxtVenvPipInstallFailed == <<"v","e","n","v"," ","p","i","p"," ","i","n","s",
    "t","a","l","l"," ","f","a","i","l","e","d">>
\* "pip install failed"
TxtPipInstallFailed == <<"p","i","p"," ","i","n","s","t","a","l","l"," ","f",
    "a","i","l","e","d">>
\* "download failed"
TxtDownloadFailed == <<"d","o","w","n","l","o","a","d"," ","f","a","i","l",
    "e","d">>
\* "no data returned"
TxtNoData == <<"n","o"," ","d","a","t","a"," ","r","e","t","u","r","n","e",
    "d">>
\* "downloaded file was not a valid yt-dlp binary"
TxtNotValidBinary == <<"d","o","w","n","l","o","a","d","e","d"," ","f","i",
    "l","e"," ","w","a","s"," ","n","o","t"," ","a"," ","v","a","l","i","d",
    " ","y","t","-","d","l","p"," ","b","i","n","a","r","y">>
\* "Installed file is not executable: "
TxtNotExecutable == <<"I","n","s","t","a","l","l","e","d"," ","f","i","l",
    "e"," ","i","s"," ","n","o","t"," ","e","x","e","c","u","t","a","b","l",
    "e",":"," ">>
\* "venv python not found at "
TxtVenvPythonNotFoundAt == <<"v","e","n","v"," ","p","y","t","h","o","n"," ",
    "n","o","t"," ","f","o","u","n","d"," ","a","t"," ">>
\* "yt-dlp not found at "
TxtYtDlpNotFoundAt == <<"y","t","-","d","l","p"," ","n","o","t"," ","f","o",
    "u","n","d"," ","a","t"," ">>
\* "yt-dlp update completed but executable was not found"
TxtCompletedNotFound == <<"y","t","-","d","l","p"," ","u","p","d","a","t",
    "e"," ","c","o","m","p","l","e","t","e","d"," ","b","u","t"," ","e","x",
    "e","c","u","t","a","b","l","e"," ","w","a","s"," ","n","o","t"," ","f",
    "o","u","n","d">>
\* "<urlopen error timed out>"
TxtUrlError == <<"<","u","r","l","o","p","e","n"," ","e","r","r","o","r"," ",
    "t","i","m","e","d"," ","o","u","t",">">>
\* "[Errno 8] Exec format error"
TxtExecFormat == <<"[","E","r","r","n","o"," ","8","]"," ","E","x","e","c",
    " ","f","o","r","m","a","t"," ","e","r","r","o","r">>
\* "Command timed out after 220 seconds"
TxtTimedOut == <<"C","o","m","m","a","n","d"," ","t","i","m","e","d"," ","o",
    "u","t"," ","a","f","t","e","r"," ","2","2","0"," ","s","e","c","o","n",
    "d","s">>
\* "ERROR:  no network"
TxtErrShort == <<"E","R","R","O","R",":"," "," ","n","o"," ","n","e","t","w",
    "o","r","k">>
\* "https://github.com/yt-dlp/yt-dlp/releases/latest/download/yt-dlp"
Url1 == <<"h","t","t","p","s",":","/","/","g","i","t","h","u","b",".","c",
    "o","m","/","y","t","-","d","l","p","/","y","t","-","d","l","p","/","r",
    "e","l","e","a","s","e","s","/","l","a","t","e","s","t","/","d","o","w",
    "n","l","o","a","d","/","y","t","-","d","l","p">>
\* "https://yt-dlp.org/downloads/latest/yt-dlp"
Url2 == <<"h","t","t","p","s",":","/","/","y","t","-","d","l","p",".","o",
    "r","g","/","d","o","w","n","l","o","a","d","s","/","l","a","t","e","s",
    "t","/","y","t","-","d","l","p">>
\* "https://github.com/yt-dlp/yt-dlp/releases/latest/download/yt-dlp_linux"
Url3 == <<"h","t","t","p","s",":","/","/","g","i","t","h","u","b",".","c",
    "o","m","/","y","t","-","d","l","p","/","y","t","-","d","l","p","/","r",
    "e","l","e","a","s","e","s","/","l","a","t","e","s","t","/","d","o","w",
    "n","l","o","a","d","/","y","t","-","d","l","p","_","l","i","n","u",
    "x">>
\* "/home/deck/homebrew/settings/ThemeDeck"
SettingsDir == <<"/","h","o","m","e","/","d","e","c","k","/","h","o","m","e",
    "b","r","e","w","/","s","e","t","t","i","n","g","s","/","T","h","e","m",
    "e","D","e","c","k">>
\* "/bin/yt-dlp"
TxtBinYtDlp == <<"/","b","i","n","/","y","t","-","d","l","p">>
\* "/ytvenv/bin/python"
TxtVenvBinPython == <<"/","y","t","v","e","n","v","/","b","i","n","/","p",
    "y","t","h","o","n">>
\* "/ytvenv/bin/yt-dlp"
TxtVenvBinYtDlp == <<"/","y","t","v","e","n","v","/","b","i","n","/","y","t",
    "-","d","l","p">>

\* "://"
TxtSchemeSep == <<":","/","/">>
\* "https://"
TxtHttps == <<"h","t","t","p","s",":","/","/">>
\* "http://"
TxtHttp == <<"h","t","t","p",":","/","/">>
\* "https://www.youtube.com/watch?v="
TxtWatchUrl == <<"h","t","t","p","s",":","/","/","w","w","w",".","y","o","u",
    "t","u","b","e",".","c","o","m","/","w","a","t","c","h","?","v","=">>
\* "www."
TxtWww == <<"w","w","w",".">>
\* "youtube.com"
HostYoutube == <<"y","o","u","t","u","b","e",".","c","o","m">>
\* "www.youtube.com"
HostWwwYoutube == <<"w","w","w",".","y","o","u","t","u","b","e",".","c","o",
    "m">>
\* "m.youtube.com"
HostMobile == <<"m",".","y","o","u","t","u","b","e",".","c","o","m">>
\* "music.youtube.com"
HostMusic == <<"m","u","s","i","c",".","y","o","u","t","u","b","e",".","c",
    "o","m">>
\* "youtu.be"
HostShort == <<"y","o","u","t","u",".","b","e">>
\* "YouTube URL is required"
TxtUrlRequired == <<"Y","o","u","T","u","b","e"," ","U","R","L"," ","i","s",
    " ","r","e","q","u","i","r","e","d">>
\* "Only YouTube links are supported"
TxtOnlyYoutube == <<"O","n","l","y"," ","Y","o","u","T","u","b","e"," ","l",
    "i","n","k","s"," ","a","r","e"," ","s","u","p","p","o","r","t","e","d">>
\* "Search query is required"
TxtQueryRequired == <<"S","e","a","r","c","h"," ","q","u","e","r","y"," ",
    "i","s"," ","r","e","q","u","i","r","e","d">>
\* "Invalid app id"
TxtInvalidAppId == <<"I","n","v","a","l","i","d"," ","a","p","p"," ","i","d">>
\* "yt-dlp is not available. Use the ThemeDeck install/update button."
TxtNotAvailable == <<"y","t","-","d","l","p"," ","i","s"," ","n","o","t"," ",
    "a","v","a","i","l","a","b","l","e","."," ","U","s","e"," ","t","h","e",
    " ","T","h","e","m","e","D","e","c","k"," ","i","n","s","t","a","l","l",
    "/","u","p","d","a","t","e"," ","b","u","t","t","o","n",".">>
\* "YouTube search failed"
TxtSearchFailed == <<"Y","o","u","T","u","b","e"," ","s","e","a","r","c","h",
    " ","f","a","i","l","e","d">>
\* "Failed to resolve preview stream"
TxtPreviewFailed == <<"F","a","i","l","e","d"," ","t","o"," ","r","e","s",
    "o","l","v","e"," ","p","r","e","v","i","e","w"," ","s","t","r","e","a",
    "m">>
\* "yt-dlp did not return a playable preview stream URL"
TxtNoStream == <<"y","t","-","d","l","p"," ","d","i","d"," ","n","o","t"," ",
    "r","e","t","u","r","n"," ","a"," ","p","l","a","y","a","b","l","e"," ",
    "p","r","e","v","i","e","w"," ","s","t","r","e","a","m"," ","U","R","L">>
\* "YouTube download failed"
TxtDownloadRunFailed == <<"Y","o","u","T","u","b","e"," ","d","o","w","n",
    "l","o","a","d"," ","f","a","i","l","e","d">>
\* "Download completed but no audio file was found"
TxtNoAudioFile == <<"D","o","w","n","l","o","a","d"," ","c","o","m","p","l",
    "e","t","e","d"," ","b","u","t"," ","n","o"," ","a","u","d","i","o"," ",
    "f","i","l","e"," ","w","a","s"," ","f","o","u","n","d">>
\* "/dl"
DownloadsDir == <<"/","d","l">>
\* "/dl/1/song.mp3"
PathSong == <<"/","d","l","/","1","/","s","o","n","g",".","m","p","3">>
\* "song.mp3"
RelSong == <<"s","o","n","g",".","m","p","3">>
\* "/dl/1/cover.jpg"
PathCover == <<"/","d","l","/","1","/","c","o","v","e","r",".","j","p","g">>
\* "/dl/1/album.mp3"
PathAlbum == <<"/","d","l","/","1","/","a","l","b","u","m",".","m","p","3">>
\* "/dl/1/locked.ogg"
PathLocked == <<"/","d","l","/","1","/","l","o","c","k","e","d",".","o","g",
    "g">>
\* "/dl/1/link.mp3"
PathLink == <<"/","d","l","/","1","/","l","i","n","k",".","m","p","3">>
\* "/music/real.FLAC"
PathReal == <<"/","m","u","s","i","c","/","r","e","a","l",".","F","L","A",
    "C">>
\* "[download] 100%"
TxtProgress == <<"[","d","o","w","n","l","o","a","d","]"," ","1","0","0","%">>
\* "File not found or inaccessible: "
TxtFileNotFound == <<"F","i","l","e"," ","n","o","t"," ","f","o","u","n","d",
    " ","o","r"," ","i","n","a","c","c","e","s","s","i","b","l","e",":"," ">>
\* "Permission denied: "
TxtPermissionDenied == <<"P","e","r","m","i","s","s","i","o","n"," ","d","e",
    "n","i","e","d",":"," ">>
\* "dQw4w9WgXcQ"
VideoId == <<"d","Q","w","4","w","9","W","g","X","c","Q">>
\* "Song"
TxtSong == <<"S","o","n","g">>
\* "chan"
TxtChannel == <<"c","h","a","n">>
\* "lofi"
TxtLofi == <<"l","o","f","i">>
\* "https://vimeo.com/123"
TxtVimeoUrl == <<"h","t","t","p","s",":","/","/","v","i","m","e","o",".","c",
    "o","m","/","1","2","3">>
\* "https://cdn.example/a.m4a"
TxtStream == <<"h","t","t","p","s",":","/","/","c","d","n",".","e","x","a",
    "m","p","l","e","/","a",".","m","4","a">>
\* "NA"
TxtNA == <<"N","A">>
\* "900"
Txt900 == <<"9","0","0">>
\* "900.9"
Txt900Point9 == <<"9","0","0",".","9">>
\* "901.0"
Txt901Point0 == <<"9","0","1",".","0">>
\* "1e3"
Txt1e3 == <<"1","e","3">>
\* "inf"
TxtInf == <<"i","n","f">>
\* "nan"
TxtNan == <<"n","a","n">>
\* "/watch"
TxtWatchPath == <<"/","w","a","t","c","h">>
\* "ftp://"
TxtFtp == <<"f","t","p",":","/","/">>
\* "YouTube.com"
TxtMixedHost == <<"Y","o","u","T","u","b","e",".","c","o","m">>
\* "vimeo.com"
HostVimeo == <<"v","i","m","e","o",".","c","o","m">>
\* ".evil.com"
TxtEvilTail == <<".","e","v","i","l",".","c","o","m">>
\* "/watch?v=dQw4w9WgXcQ"
TxtWatchTail == <<"/","w","a","t","c","h","?","v","=","d","Q","w","4","w",
    "9","W","g","X","c","Q">>
\* ":443"
TxtPort == <<":","4","4","3">>
\* "?x"
TxtQueryTail == <<"?","x">>
\* "#y"
TxtFragmentTail == <<"#","y">>

(***************************************************************************)
(* Bounds of the model.                                                    *)
(***************************************************************************)
\* Longest candidate file, in segments (a signature, a marker or a run of
\* filler bytes each count as one segment).
MaxSegments == 3
\* Length of the long error line an external command may print.
LongLine == 230
MaxSearchLines == 2
MaxUrlPieces == 3
MaxPrinted == 2
MaxConfigLines == 8

(***************************************************************************)
(* Text helpers.                                                           *)
(***************************************************************************)
Filler(n) == [i \in 1..n |-> "e"]

IsBlank(text) == \A i \in 1..Len(text) : text[i] = " "

\* " ".join(message.split()): leading and trailing whitespace dropped, every
\* inner run of whitespace replaced by one space.
JoinSplit(message) ==
    LET keep(i) == \/ message[i] # " "
                   \/ /\ i > 1
                      /\ message[i - 1] # " "
                      /\ \E j \in (i + 1)..Len(message) : message[j] # " "
        marked == [i \in 1..Len(message) |->
                      IF keep(i) THEN message[i] ELSE "DROP"]
    IN  SelectSeq(marked, LAMBDA c : c # "DROP")

TrimLimitDefault == 220
TrimSummaryLimit == 140
TrimDownloadLimit == 280

\* variant: the text is cleaned and never cut
TrimMessageUncut(message, limit) == JoinSplit(message)

TrimMessage(message, limit) ==
    LET cleaned == JoinSplit(message)
    IN  IF Len(cleaned) <= limit THEN cleaned
        ELSE SubSeq(cleaned, 1, limit - 3) \o TxtDots

Contains(text, pattern) ==
    \E i \in 1..(Len(text) - Len(pattern) + 1) :
        SubSeq(text, i, i + Len(pattern) - 1) = pattern

RECURSIVE JoinWith(_, _)
JoinWith(texts, sep) ==
    IF Len(texts) = 0 THEN <<>>
    ELSE IF Len(texts) = 1 THEN texts[1]
    ELSE texts[1] \o sep \o JoinWith(Tail(texts), sep)

(***************************************************************************)
(* Results of external commands (subprocess.CompletedProcess): the exit    *)
(* code and the two captured streams, each a sequence of lines.            *)
(***************************************************************************)
CompletedProcess(rc, out, err) ==
    [returncode |-> rc, stdout |-> out, stderr |-> err]

\* text.strip() is non-empty
Stripped(lines) == SelectSeq(lines, LAMBDA l : ~IsBlank(l))

\* text.strip().splitlines()[-1]
LastLine(lines) == Stripped(lines)[Len(Stripped(lines))]

\* variant: the standard output is looked at only when the standard error
\* is empty
CommandErrorStderrFirst(result, fallback) ==
    IF Len(Stripped(result.stderr)) > 0
    THEN TrimMessage(LastLine(result.stderr), TrimLimitDefault)
    ELSE IF Len(Stripped(result.stdout)) > 0
    THEN TrimMessage(LastLine(result.stdout), TrimLimitDefault)
    ELSE fallback

CommandError(result, fallback) ==
    LET stderr == Stripped(result.stderr)
        stdout == Stripped(result.stdout)
    IN  IF Len(stderr) > 0 /\ Len(stdout) > 0
        THEN TrimMessage(LastLine(result.stderr) \o TxtBar
                             \o LastLine(result.stdout), TrimLimitDefault)
        ELSE IF Len(stderr) > 0
        THEN TrimMessage(LastLine(result.stderr), TrimLimitDefault)
        ELSE IF Len(stdout) > 0
        THEN TrimMessage(LastLine(result.stdout), TrimLimitDefault)
        ELSE fallback

(***************************************************************************)
(* File contents.  A content is a sequence of segments; a segment is a     *)
(* byte string the validation looks for (tok, with its length) or a run of *)
(* len filler bytes that belong to no signature and no marker.             *)
(***************************************************************************)
SigTokens == {"x7fELF", "#!", "MZ"}
HtmlTokens == {"<html", "<HTML", "<!doctype html", "<!DOCTYPE html"}
Tokens == SigTokens \cup HtmlTokens

TokLen(tok) ==
    CASE tok = "x7fELF" -> 4
      [] tok \in {"#!", "MZ"} -> 2
      [] tok \in {"<html", "<HTML"} -> 5
      [] tok \in {"<!doctype html", "<!DOCTYPE html"} -> 14

\* bytes.lower() on a segment
Lower(tok) ==
    CASE tok = "<HTML" -> "<html"
      [] tok = "<!DOCTYPE html" -> "<!doctype html"
      [] tok = "MZ" -> "mz"
      [] tok = "x7fELF" -> "x7felf"
      [] OTHER -> tok

Lit(tok) == [tok |-> tok, len |-> TokLen(tok)]
Fill(n) == [tok |-> "fill", len |-> n]

FillSizes == {1, 60, 61, 62, 63, 64, 4091, 4092, 1048576, 1048577}
Segments == {Lit(t) : t \in Tokens} \cup {Fill(n) : n \in FillSizes}

RECURSIVE SeqsUpTo(_, _)
SeqsUpTo(S, n) ==
    IF n = 0 THEN {<<>>}
    ELSE LET shorter == SeqsUpTo(S, n - 1)
         IN  shorter \cup {Append(s, x) : s \in {t \in shorter : Len(t) = n - 1},
                                           x \in S}

Contents == SeqsUpTo(Segments, MaxSegments)

RECURSIVE SizeUpTo(_, _)
\* number of bytes in the first k segments
SizeUpTo(content, k) ==
    IF k = 0 THEN 0 ELSE SizeUpTo(content, k - 1) + content[k].len

Size(content) == SizeUpTo(content, Len(content))

\* content.startswith(sig)
StartsWith(content, sig) == Len(content) > 0 /\ content[1].tok = sig

HeadBytes == 4096
MinBinarySize == 64
LargeBinarySize == 1048576

\* marker in content[:4096].lower()
InHead(content, marker) ==
    \E i \in 1..Len(content) :
        /\ Lower(content[i].tok) = marker
        /\ SizeUpTo(content, i) <= HeadBytes

\* A path of the filesystem: absent, or a regular file with its content.
AbsentFile == [exists |-> FALSE, content |-> <<>>]
FileWith(content) == [exists |-> TRUE, content |-> content]

\* variant: the markers are searched in the head as it is, not lower-cased
IsValidNoLower(path) ==
    LET content == path.content
        raw(marker) == \E i \in 1..Len(content) :
                           /\ content[i].tok = marker
                           /\ SizeUpTo(content, i) <= HeadBytes
    IN  IF ~path.exists THEN FALSE
        ELSE IF Size(content) < MinBinarySize THEN FALSE
        ELSE IF raw("<!doctype html") \/ raw("<html") THEN FALSE
        ELSE IF StartsWith(content, "x7fELF") THEN TRUE
        ELSE IF StartsWith(content, "#!") THEN TRUE
        ELSE IF StartsWith(content, "MZ") THEN TRUE
        ELSE IF Size(content) > LargeBinarySize THEN TRUE
        ELSE FALSE

\* variant: a file of exactly 1 MiB already counts as large
IsValidAtOneMiB(path) ==
    LET content == path.content
    IN  IF ~path.exists THEN FALSE
        ELSE IF Size(content) < MinBinarySize THEN FALSE
        ELSE IF InHead(content, "<!doctype html") \/ InHead(content, "<html")
        THEN FALSE
        ELSE IF StartsWith(content, "x7fELF") THEN TRUE
        ELSE IF StartsWith(content, "#!") THEN TRUE
        ELSE IF StartsWith(content, "MZ") THEN TRUE
        ELSE IF Size(content) >= LargeBinarySize THEN TRUE
        ELSE FALSE

\* _is_valid_yt_dlp_binary
IsValidYtDlpBinary(path) ==
    LET content == path.content
    IN  IF ~path.exists THEN FALSE
        ELSE IF Size(content) < MinBinarySize THEN FALSE
        ELSE IF InHead(content, "<!doctype html") \/ InHead(content, "<html")
        THEN FALSE
        ELSE IF StartsWith(content, "x7fELF") THEN TRUE
        ELSE IF StartsWith(content, "#!") THEN TRUE
        ELSE IF StartsWith(content, "MZ") THEN TRUE
        ELSE IF Size(content) > LargeBinarySize THEN TRUE
        ELSE FALSE

(***************************************************************************)
(* State.                                                                  *)
(***************************************************************************)
VARIABLES
    \* what shutil.which() finds on the search path
    python3, curlPath, wgetPath, systemYtDlp,
    \* the private environment: ytvenv/bin/python and ytvenv/bin/yt-dlp
    venvPython, venvYtDlp,
    \* ~/.local/bin/yt-dlp
    userYtDlp,
    \* bin/yt-dlp, the fallback binary, and the temporary file beside it
    ytDlpPath, tempPath,
    \* update_yt_dlp: position and locals
    pc, venvError, pipError, error, errors, urlIndex, transport,
    \* what update_yt_dlp returned or raised
    result, raisedFrom, message,
    \* observations of the run: strategies started, status after the
    \* environment build, download attempts, the fallback binary at the start
    attempts, sourceAfterVenv, dlLog, ytDlpPath0,
    \* the last answer of _resolve_yt_dlp_invocation
    located,
    \* _is_valid_yt_dlp_binary applied to a candidate
    candidate, verdict,
    \* the track registry (self._tracks) and the files the media operations
    \* look at
    tracks, library,
    \* the last media operation: its arguments, the run of the tool it
    \* launched, the commands it launched, and what it returned or raised
    request, toolRun, launched, reply,
    \* _extract_app_ids_from_localconfig: its locals while it reads the
    \* lines of a file
    current_section, pending_section, depth, app_ids,
    \* the file read so far: the number of its lines, the names of the
    \* blocks that are open, the name standing on the last line, and the
    \* identifiers found keyed under a block named "apps"
    scanned, blocks, last_name, direct, clear,
    \* resolve_store_app_names: where the call stands, its locals, the
    \* fallback tasks it gathers and the value of their semaphore
    names_pc, unique_ids, index, chunk, resolved_names, tasks, semaphore,
    \* the identifiers whose lookup against the community site has been
    \* handed to a thread, in the order of the hand-over
    started,
    \* _run_command: whether it has launched a process, the environment it
    \* copied, the overrides of its caller and the environment it handed over
    spawned, environ, overrides, run_env

envVars == <<python3, curlPath, wgetPath, systemYtDlp>>
fsVars == <<venvPython, venvYtDlp, userYtDlp, ytDlpPath, tempPath>>
runVars == <<pc, venvError, pipError, error, errors, urlIndex, transport,
             result, raisedFrom, message>>
obsVars == <<attempts, sourceAfterVenv, dlLog, ytDlpPath0>>
binVars == <<candidate, verdict>>
mediaVars == <<tracks, library, request, toolRun, launched, reply>>
scanVars == <<current_section, pending_section, depth, app_ids, scanned,
              blocks, last_name, direct, clear>>
nameVars == <<names_pc, unique_ids, index, chunk, resolved_names, tasks,
              semaphore, started>>
childVars == <<spawned, environ, overrides, run_env>>
opVars == <<mediaVars, scanVars, nameVars, childVars>>
vars == <<envVars, fsVars, runVars, obsVars, located, binVars, opVars>>

FileModes == {"absent", "noexec", "exec"}

None == <<>>

NoBinary == [exists |-> FALSE, content |-> <<>>, executable |-> FALSE]
OldBinary == <<Lit("#!"), Fill(1048576)>>
NewBinary == <<Lit("x7fELF"), Fill(1048577)>>
HtmlPage == <<Lit("<!DOCTYPE html"), Fill(4091)>>
ShortScript == <<Lit("#!"), Fill(1)>>
\* what a mirror may send
Bodies == {NewBinary, HtmlPage, ShortScript, <<>>}

(***************************************************************************)
(* Tool locator.                                                           *)
(***************************************************************************)
Invocation(source, path) ==
    [command |-> <<path>>, env |-> "None", source |-> source, path |-> path]

NoInvocation == [command |-> <<>>, env |-> "None", source |-> "none",
                 path |-> ""]
NotLocated == [command |-> <<>>, env |-> "None", source |-> "unknown",
               path |-> ""]

\* variant: the search path is probed before the private environment
ResolveSystemFirst ==
    IF systemYtDlp
    THEN Invocation("system", "PATH/yt-dlp")
    ELSE IF venvYtDlp = "exec"
    THEN Invocation("venv", "ytvenv/bin/yt-dlp")
    ELSE IF userYtDlp = "exec"
    THEN Invocation("system", "~/.local/bin/yt-dlp")
    ELSE IF ytDlpPath.exists /\ ytDlpPath.executable
    THEN Invocation("local", "bin/yt-dlp")
    ELSE NoInvocation

\* _resolve_yt_dlp_invocation
ResolveYtDlpInvocation ==
    IF venvYtDlp = "exec"
    THEN Invocation("venv", "ytvenv/bin/yt-dlp")
    ELSE IF systemYtDlp
    THEN Invocation("system", "PATH/yt-dlp")
    ELSE IF userYtDlp = "exec"
    THEN Invocation("system", "~/.local/bin/yt-dlp")
    ELSE IF ytDlpPath.exists /\ ytDlpPath.executable
    THEN Invocation("local", "bin/yt-dlp")
    ELSE NoInvocation

\* get_yt_dlp_status without the version query
StatusOf(invocation, version) ==
    [installed |-> invocation # NoInvocation,
     path |-> invocation.path,
     source |-> invocation.source,
     version |-> IF invocation # NoInvocation THEN version ELSE ""]

NoStatus == [installed |-> FALSE, path |-> "", source |-> "unset",
             version |-> ""]

(***************************************************************************)
(* External commands: what _run_command may do.                            *)
(***************************************************************************)
\* subprocess.run raises: the timeout expired, or the program did not start
Exceptions == {"TimeoutExpired", "OSError"}
ExceptionText(kind) ==
    IF kind = "TimeoutExpired" THEN TxtTimedOut ELSE TxtExecFormat

ResOk == CompletedProcess(0, <<>>, <<>>)
ResFailSilent == CompletedProcess(1, <<>>, <<>>)
ResFailShort == CompletedProcess(1, <<>>, <<TxtErrShort>>)
ResFailLong == CompletedProcess(1, <<>>, <<Filler(LongLine)>>)
InstallResults == {ResOk, ResFailShort, ResFailLong}
DownloadResults == {ResOk, ResFailSilent}

\* `--version`: a first line of output, no usable output, or an exception
VersionOutcomes == {"version", "noversion"} \cup Exceptions

Url(i) == CASE i = 1 -> Url1 [] i = 2 -> Url2 [] i = 3 -> Url3
UrlCount == 3

(***************************************************************************)
(* update_yt_dlp, one action per external command it awaits.               *)
(***************************************************************************)
Raise(from, text) ==
    /\ pc' = "raised"
    /\ raisedFrom' = from
    /\ message' = text

\* variant: the file is left where it is
UnlinkedNever == tempPath

\* the finally clause of update_yt_dlp
Unlinked == AbsentFile

\* update_yt_dlp is called; _install_yt_dlp_in_venv looks for python3
Start ==
    /\ pc = "idle"
    /\ attempts' = <<"venv">>
    /\ located' = NotLocated
    /\ IF python3
       THEN pc' = "venv_create" /\ UNCHANGED venvError
       ELSE pc' = "status1" /\ venvError' = TxtPython3NotFound
    /\ UNCHANGED <<envVars, fsVars, pipError, error, errors, urlIndex,
                   transport, result, raisedFrom, message, sourceAfterVenv,
                   dlLog, ytDlpPath0, binVars, opVars>>

\* python3 -m venv <ytvenv>
VenvCreate ==
    /\ pc = "venv_create"
    /\ \/ \E kind \in Exceptions :
            /\ Raise("venv", ExceptionText(kind))
            /\ UNCHANGED <<venvPython, venvError>>
       \/ \E res \in InstallResults :
            /\ res.returncode # 0
            /\ venvError' = CommandError(res, TxtVenvCreationFailed)
            /\ pc' = "status1"
            /\ UNCHANGED <<venvPython, raisedFrom, message>>
       \/ \E created \in {venvPython, TRUE} :
            /\ venvPython' = created
            /\ IF ~created
               THEN /\ venvError' = TxtVenvPythonNotFoundAt \o SettingsDir
                                        \o TxtVenvBinPython
                    /\ pc' = "status1"
               ELSE /\ pc' = "venv_pip"
                    /\ UNCHANGED venvError
            /\ UNCHANGED <<raisedFrom, message>>
    /\ UNCHANGED <<envVars, venvYtDlp, userYtDlp, ytDlpPath, tempPath,
                   pipError, error, errors, urlIndex, transport, result,
                   obsVars, located, binVars, opVars>>

\* <ytvenv>/bin/python -m pip install --upgrade pip yt-dlp
VenvPip ==
    /\ pc = "venv_pip"
    /\ \/ \E kind \in Exceptions :
            /\ Raise("venv", ExceptionText(kind))
            /\ UNCHANGED <<venvYtDlp, venvError>>
       \/ \E res \in InstallResults :
            /\ res.returncode # 0
            /\ venvError' = CommandError(res, TxtVenvPipInstallFailed)
            /\ pc' = "status1"
            /\ UNCHANGED <<venvYtDlp, raisedFrom, message>>
       \/ \E installed \in {venvYtDlp, "noexec", "exec"} :
            /\ venvYtDlp' = installed
            /\ venvError' = IF installed = "absent"
                            THEN TxtYtDlpNotFoundAt \o SettingsDir
                                     \o TxtVenvBinYtDlp
                            ELSE None
            /\ pc' = "status1"
            /\ UNCHANGED <<raisedFrom, message>>
    /\ UNCHANGED <<envVars, venvPython, userYtDlp, ytDlpPath, tempPath,
                   pipError, error, errors, urlIndex, transport, result,
                   obsVars, located, binVars, opVars>>

\* variant: update_yt_dlp never returns right after the build
EarlyReturnNever == {}
\* the sources for which update_yt_dlp returns right after the build
EarlyReturnSources == {"venv", "system"}

\* variant: the status says installed whatever the locator answered
InstalledAlways(invocation) == TRUE
\* bool(invocation)
Installed(invocation) == invocation # NoInvocation

\* first transport tried for a URL
FirstTransport == "curl"

\* status after the environment build; return, or mkstemp and go on
Status1 ==
    /\ pc = "status1"
    /\ LET invocation == ResolveYtDlpInvocation
       IN  /\ sourceAfterVenv' = invocation.source
           /\ \E outcome \in VersionOutcomes :
                IF Installed(invocation) /\ outcome \in Exceptions
                THEN /\ Raise("status", ExceptionText(outcome))
                     /\ UNCHANGED <<tempPath, result, attempts, urlIndex,
                                    transport>>
                ELSE IF /\ Installed(invocation)
                        /\ invocation.source \in EarlyReturnSources
                THEN /\ pc' = "returned"
                     /\ result' = StatusOf(invocation,
                                     IF outcome = "version" THEN "v" ELSE "")
                     /\ UNCHANGED <<tempPath, raisedFrom, message, attempts,
                                    urlIndex, transport>>
                ELSE /\ tempPath' = FileWith(<<>>)
                     /\ attempts' = Append(attempts, "download")
                     /\ urlIndex' = 1
                     /\ transport' = FirstTransport
                     /\ pc' = "download"
                     /\ UNCHANGED <<result, raisedFrom, message>>
    /\ UNCHANGED <<envVars, venvPython, venvYtDlp, userYtDlp, ytDlpPath,
                   venvError, pipError, error, errors, dlLog, ytDlpPath0,
                   located, binVars, opVars>>

(***************************************************************************)
(* _download_yt_dlp_binary(temp_path).                                     *)
(***************************************************************************)
\* variant: a downloaded file is accepted without the validation
AcceptedUnvalidated(res, path) ==
    /\ res.returncode = 0
    /\ path.exists
    /\ Size(path.content) > 0

\* the test after curl and after wget
Accepted(res, path) ==
    /\ res.returncode = 0
    /\ path.exists
    /\ Size(path.content) > 0
    /\ IsValidYtDlpBinary(path)

Attempt(tr, outcome) == [transport |-> tr, url |-> urlIndex, outcome |-> outcome]

\* an exception leaves the try block of update_yt_dlp and is caught by
\* `except Exception as error`
Caught(text) ==
    /\ error' = text
    /\ pc' = "pip"

\* the locals of _download_yt_dlp_binary are gone when it is left
Left == <<>>

\* what the external downloader leaves at temp_path
Written == {tempPath} \cup {FileWith(body) : body \in Bodies}

\* one external downloader (curl or wget) on the current URL
RunDownloader(tr, label, next) ==
    \/ \E kind \in Exceptions :
         /\ Caught(ExceptionText(kind))
         /\ dlLog' = Append(dlLog, Attempt(tr, "raised"))
         /\ errors' = Left
         /\ UNCHANGED <<tempPath, transport>>
    \/ \E res \in DownloadResults, written \in Written :
         IF Accepted(res, written)
         THEN /\ tempPath' = written
              /\ dlLog' = Append(dlLog, Attempt(tr, "ok"))
              /\ pc' = "install"
              /\ errors' = Left
              /\ UNCHANGED <<error, transport>>
         ELSE /\ errors' = Append(errors,
                     label \o Url(urlIndex) \o TxtColon
                         \o CommandError(res, TxtDownloadFailed))
              /\ tempPath' = Unlinked
              /\ dlLog' = Append(dlLog, Attempt(tr, "failed"))
              /\ transport' = next
              /\ UNCHANGED <<error, pc>>

DownloadCurl ==
    /\ pc = "download"
    /\ transport = "curl"
    /\ IF curlPath
       THEN RunDownloader("curl", TxtCurl, "wget")
       ELSE /\ transport' = "wget"
            /\ UNCHANGED <<tempPath, pc, error, errors, dlLog>>
    /\ UNCHANGED <<envVars, venvPython, venvYtDlp, userYtDlp, ytDlpPath,
                   venvError, pipError, urlIndex, result, raisedFrom,
                   message, attempts, sourceAfterVenv, ytDlpPath0, located,
                   binVars, opVars>>

DownloadWget ==
    /\ pc = "download"
    /\ transport = "wget"
    /\ IF wgetPath
       THEN RunDownloader("wget", TxtWget, "urllib")
       ELSE /\ transport' = "urllib"
            /\ UNCHANGED <<tempPath, pc, error, errors, dlLog>>
    /\ UNCHANGED <<envVars, venvPython, venvYtDlp, userYtDlp, ytDlpPath,
                   venvError, pipError, urlIndex, result, raisedFrom,
                   message, attempts, sourceAfterVenv, ytDlpPath0, located,
                   binVars, opVars>>

\* urllib failed on the current URL: record it, go to the next URL, or
\* leave the loop and raise the joined summary
UrllibFailed(text) ==
    LET all == Append(errors, TxtUrllib \o Url(urlIndex) \o TxtColon \o text)
    IN  /\ errors' = (IF urlIndex < UrlCount THEN all ELSE Left)
        /\ tempPath' = Unlinked
        /\ dlLog' = Append(dlLog, Attempt("urllib", "failed"))
        /\ IF urlIndex < UrlCount
           THEN /\ urlIndex' = urlIndex + 1
                /\ transport' = FirstTransport
                /\ UNCHANGED <<pc, error>>
           ELSE /\ Caught(TrimMessage(JoinWith(all, TxtSemi),
                                      TrimDownloadLimit))
                /\ UNCHANGED <<urlIndex, transport>>

DownloadUrllib ==
    /\ pc = "download"
    /\ transport = "urllib"
    /\ \/ UrllibFailed(TxtUrlError)
       \/ \E data \in Bodies :
            IF Len(data) = 0
            THEN UrllibFailed(TxtNoData)
            ELSE IF Size(data) <= 0 \/ ~IsValidYtDlpBinary(FileWith(data))
            THEN UrllibFailed(TxtNotValidBinary)
            ELSE /\ tempPath' = FileWith(data)
                 /\ dlLog' = Append(dlLog, Attempt("urllib", "ok"))
                 /\ pc' = "install"
                 /\ errors' = Left
                 /\ UNCHANGED <<error, urlIndex, transport>>
    /\ UNCHANGED <<envVars, venvPython, venvYtDlp, userYtDlp, ytDlpPath,
                   venvError, pipError, result, raisedFrom, message,
                   attempts, sourceAfterVenv, ytDlpPath0, located,
                   binVars, opVars>>

\* temp_path.chmod(0o755); temp_path.replace(self._yt_dlp_path)
Install ==
    /\ pc = "install"
    /\ ytDlpPath' = [exists |-> TRUE, content |-> tempPath.content,
                     executable |-> TRUE]
    /\ tempPath' = AbsentFile
    /\ pc' = "post_version"
    /\ UNCHANGED <<envVars, venvPython, venvYtDlp, userYtDlp, venvError,
                   pipError, error, errors, urlIndex, transport, result,
                   raisedFrom, message, obsVars, located, binVars, opVars>>

\* bin/yt-dlp --version after the rename
PostVersion ==
    /\ pc = "post_version"
    /\ \E outcome \in VersionOutcomes :
         IF outcome = "version"
         THEN pc' = "status2" /\ UNCHANGED error
         ELSE IF outcome = "noversion"
         THEN Caught(TxtNotExecutable \o SettingsDir \o TxtBinYtDlp)
         ELSE Caught(ExceptionText(outcome))
    /\ UNCHANGED <<envVars, fsVars, venvError, pipError, errors, urlIndex,
                   transport, result, raisedFrom, message, obsVars, located,
                   binVars, opVars>>

\* `except Exception as error`: _try_install_yt_dlp_with_pip
Pip ==
    /\ pc = "pip"
    /\ attempts' = Append(attempts, "pip")
    /\ IF ~python3
       THEN /\ pipError' = TxtPython3NotFound
            /\ pc' = "status3"
            /\ UNCHANGED <<userYtDlp, tempPath, raisedFrom, message>>
       ELSE \/ \E kind \in Exceptions :
                 /\ Raise("pip", ExceptionText(kind))
                 /\ tempPath' = Unlinked
                 /\ UNCHANGED <<userYtDlp, pipError>>
            \/ \E res \in InstallResults :
                 /\ res.returncode # 0
                 /\ pipError' = CommandError(res, TxtPipInstallFailed)
                 /\ pc' = "status3"
                 /\ UNCHANGED <<userYtDlp, tempPath, raisedFrom, message>>
            \/ \E installed \in {userYtDlp, "exec"} :
                 /\ userYtDlp' = installed
                 /\ pipError' = None
                 /\ pc' = "status3"
                 /\ UNCHANGED <<tempPath, raisedFrom, message>>
    /\ UNCHANGED <<envVars, venvPython, venvYtDlp, ytDlpPath, venvError,
                   error, errors, urlIndex, transport, result,
                   sourceAfterVenv, dlLog, ytDlpPath0, located,
                   binVars, opVars>>

\* the summary of the three failures
Summary ==
    LET first == TrimMessage(error, TrimSummaryLimit)
        withVenv == IF Len(venvError) > 0
                    THEN TrimMessage(first \o TxtVenvLabel \o venvError,
                                     TrimLimitDefault)
                    ELSE first
    IN  IF Len(pipError) > 0
        THEN TrimMessage(withVenv \o TxtPipLabel \o pipError,
                         TrimLimitDefault)
        ELSE withVenv

\* status after the package install: return it, or raise the summary
Status3 ==
    /\ pc = "status3"
    /\ tempPath' = Unlinked
    /\ LET invocation == ResolveYtDlpInvocation
       IN  \E outcome \in VersionOutcomes :
             IF invocation # NoInvocation /\ outcome \in Exceptions
             THEN /\ Raise("status", ExceptionText(outcome))
                  /\ UNCHANGED result
             ELSE IF Installed(invocation)
             THEN /\ pc' = "returned"
                  /\ result' = StatusOf(invocation,
                                  IF outcome = "version" THEN "v" ELSE "")
                  /\ UNCHANGED <<raisedFrom, message>>
             ELSE /\ Raise("update", TxtFailedToUpdate \o Summary)
                  /\ UNCHANGED result
    /\ UNCHANGED <<envVars, venvPython, venvYtDlp, userYtDlp, ytDlpPath,
                   venvError, pipError, error, errors, urlIndex, transport,
                   obsVars, located, binVars, opVars>>

\* status after a download whose version check passed
Status2 ==
    /\ pc = "status2"
    /\ LET invocation == ResolveYtDlpInvocation
       IN  \E outcome \in VersionOutcomes :
             IF invocation # NoInvocation /\ outcome \in Exceptions
             THEN /\ Raise("status", ExceptionText(outcome))
                  /\ UNCHANGED result
             ELSE IF Installed(invocation)
             THEN /\ pc' = "returned"
                  /\ result' = StatusOf(invocation,
                                  IF outcome = "version" THEN "v" ELSE "")
                  /\ UNCHANGED <<raisedFrom, message>>
             ELSE /\ Raise("update", TxtCompletedNotFound)
                  /\ UNCHANGED result
    /\ UNCHANGED <<envVars, fsVars, venvError, pipError, error, errors,
                   urlIndex, transport, obsVars, located, binVars, opVars>>

\* variant: the locator marks an existing fallback binary executable
LocateRepairing ==
    /\ pc \in {"idle", "returned", "raised"}
    /\ ytDlpPath' = [ytDlpPath EXCEPT !.executable = ytDlpPath.exists]
    /\ located' = ResolveYtDlpInvocation
    /\ UNCHANGED <<envVars, venvPython, venvYtDlp, userYtDlp, tempPath,
                   runVars, obsVars, binVars, opVars>>

\* _resolve_yt_dlp_invocation, called while no update is running
Locate ==
    /\ pc \in {"idle", "returned", "raised"}
    /\ located' = ResolveYtDlpInvocation
    /\ UNCHANGED <<envVars, fsVars, runVars, obsVars, binVars, opVars>>

\* get_yt_dlp_status, called while no update is running: the locator, then
\* `--version` with the answer
GetYtDlpStatus ==
    /\ pc \in {"idle", "returned", "raised"}
    /\ \E outcome \in VersionOutcomes :
         LET invocation == ResolveYtDlpInvocation
             status == StatusOf(invocation, outcome)
         IN  /\ status.source = invocation.source
             /\ located' = invocation
    /\ UNCHANGED <<envVars, fsVars, runVars, obsVars, binVars, opVars>>

\* _is_valid_yt_dlp_binary(candidate)
Validate ==
    /\ verdict = "unchecked"
    /\ verdict' = IF IsValidYtDlpBinary(candidate) THEN "valid" ELSE "invalid"
    /\ UNCHANGED <<envVars, fsVars, runVars, obsVars, located, candidate,
                   opVars>>

(***************************************************************************)
(* Text of the media operations: queries, URLs and the tool's output       *)
(* lines.  Their alphabet has a second whitespace character, the tab.      *)
(***************************************************************************)
Tab == "\t"
Whitespace == {" ", Tab}

\* str.strip()
Strip(text) ==
    LET solid == {i \in 1..Len(text) : text[i] \notin Whitespace}
    IN  IF solid = {} THEN <<>>
        ELSE SubSeq(text, CHOOSE i \in solid : \A j \in solid : i <= j,
                          CHOOSE i \in solid : \A j \in solid : j <= i)

\* str.startswith(prefix)
StartsWithText(text, prefix) ==
    /\ Len(text) >= Len(prefix)
    /\ SubSeq(text, 1, Len(prefix)) = prefix

\* str.split(sep) for a one-character separator
Split(text, sep) ==
    LET at == {i \in 1..Len(text) : text[i] = sep}
        \* the k-th separator; the start and the end of the text count as
        \* separators 0 and Cardinality(at) + 1
        nth(k) == IF k = 0 THEN 0
                  ELSE IF k > Cardinality(at) THEN Len(text) + 1
                  ELSE CHOOSE i \in at :
                           Cardinality({j \in at : j < i}) = k - 1
    IN  [k \in 1..(Cardinality(at) + 1) |->
            SubSeq(text, nth(k - 1) + 1, nth(k) - 1)]

UpperLetters == <<"A","B","C","D","E","F","G","H","I","J","K","L","M","N",
    "O","P","Q","R","S","T","U","V","W","X","Y","Z">>
LowerLetters == <<"a","b","c","d","e","f","g","h","i","j","k","l","m","n",
    "o","p","q","r","s","t","u","v","w","x","y","z">>
Digits == <<"0","1","2","3","4","5","6","7","8","9">>
Range(s) == {s[i] : i \in 1..Len(s)}

\* str.lower()
LowerChar(c) ==
    IF c \in Range(UpperLetters)
    THEN LowerLetters[CHOOSE i \in 1..Len(UpperLetters) : UpperLetters[i] = c]
    ELSE c
LowerText(text) == [i \in 1..Len(text) |-> LowerChar(text[i])]

(***************************************************************************)
(* urllib.parse.urlparse(url).netloc: a scheme is split off at the first   *)
(* colon when everything before it is a scheme character and the first     *)
(* character is a letter; the network location is what follows a leading   *)
(* "//" up to the first "/", "?" or "#".                                   *)
(***************************************************************************)
SchemeChars ==
    Range(UpperLetters) \cup Range(LowerLetters) \cup Range(Digits)
        \cup {"+", "-", "."}

AfterScheme(url) ==
    LET colons == {i \in 1..Len(url) : url[i] = ":"}
        i == CHOOSE k \in colons : \A j \in colons : k <= j
    IN  IF /\ colons # {}
           /\ i > 1
           /\ url[1] \in Range(UpperLetters) \cup Range(LowerLetters)
           /\ \A j \in 1..(i - 1) : url[j] \in SchemeChars
        THEN SubSeq(url, i + 1, Len(url))
        ELSE url

Netloc(url) ==
    LET rest == AfterScheme(url)
        ends == {i \in 3..Len(rest) : rest[i] \in {"/", "?", "#"}}
        stop == IF ends = {} THEN Len(rest) + 1
                ELSE CHOOSE k \in ends : \A j \in ends : k <= j
    IN  IF StartsWithText(rest, <<"/", "/">>)
        THEN SubSeq(rest, 3, stop - 1)
        ELSE <<>>

\* an exception raised by an operation: its type and its message
Error(type, text) == [type |-> type, message |-> text]

HostPrefixes ==
    {HostYoutube, HostWwwYoutube, HostMobile, HostMusic, HostShort}
AllowedHosts == {HostYoutube, HostMobile, HostMusic, HostShort}

\* variant: the host is accepted when it begins with an allowed host
HostAllowedByPrefix(host) ==
    \E allowed \in AllowedHosts : StartsWithText(host, allowed)

HostAllowed(host) == host \in AllowedHosts

\* lines 896-901: a scheme is put before a known host, a bare video id
\* becomes a watch URL
Promoted(cleaned) ==
    IF ~Contains(cleaned, TxtSchemeSep)
           /\ \E prefix \in HostPrefixes : StartsWithText(cleaned, prefix)
    THEN TxtHttps \o cleaned
    ELSE IF ~Contains(cleaned, TxtSchemeSep)
           /\ ~Contains(cleaned, <<"/">>) /\ ~Contains(cleaned, <<" ">>)
    THEN TxtWatchUrl \o cleaned
    ELSE cleaned

\* _normalize_youtube_url: the URL it returns, or the error it raises
NormalizeYoutubeUrl(value) ==
    LET cleaned == Strip(value)
        url == Promoted(cleaned)
        netloc == LowerText(Netloc(url))
        host == IF StartsWithText(netloc, TxtWww)
                THEN SubSeq(netloc, 5, Len(netloc)) ELSE netloc
    IN  IF cleaned = <<>>
        THEN [ok |-> FALSE, url |-> <<>>,
              error |-> Error("ValueError", TxtUrlRequired)]
        ELSE IF ~HostAllowed(host)
        THEN [ok |-> FALSE, url |-> <<>>,
              error |-> Error("ValueError", TxtOnlyYoutube)]
        ELSE [ok |-> TRUE, url |-> url, error |-> Error("none", <<>>)]

(***************************************************************************)
(* search_youtube: one line of the tool's output becomes at most one hit.  *)
(***************************************************************************)
\* the number written by the first k digits of a text
RECURSIVE DigitsValueUpTo(_, _)
DigitsValueUpTo(digits, k) ==
    IF k = 0 THEN 0
    ELSE 10 * DigitsValueUpTo(digits, k - 1)
             + ((CHOOSE i \in 1..10 : Digits[i] = digits[k]) - 1)
DigitsValue(digits) == DigitsValueUpTo(digits, Len(digits))

IsDigits(text) == \A i \in 1..Len(text) : text[i] \in Range(Digits)

Unsigned(text) ==
    IF Len(text) > 0 /\ text[1] \in {"+", "-"} THEN Tail(text) ELSE text

\* the element of a one-element set; The({F(x) : x \in {e}}) is F(e) with
\* e computed once
The(S) == CHOOSE x \in S : TRUE

\* the number with the digits `whole` before and `fraction` after the
\* point, times 10 to the power `shift`: its whole part, and whether a
\* fraction is left
Scaled(negative, whole, fraction, shift) ==
    LET digits == whole \o fraction
        cut == Len(whole) + shift
        kept == IF cut <= 0 THEN <<>>
                ELSE [i \in 1..cut |->
                         IF i <= Len(digits) THEN digits[i] ELSE "0"]
    IN  [kind |-> "number", negative |-> negative,
         whole |-> DigitsValue(kept),
         fraction |-> \E i \in 1..Len(digits) : i > cut /\ digits[i] # "0"]

NotANumber == [kind |-> "ValueError"]

\* the exponent of a number: an optional sign and at least one digit
Exponent(text) ==
    IF Len(text) > 0 /\ text[1] = "-"
    THEN 0 - DigitsValue(Tail(text))
    ELSE DigitsValue(Unsigned(text))

\* a mantissa split at the point, with the exponent
Decimal(negative, point, exponent) ==
    IF /\ Len(point) \in {1, 2}
       /\ \A i \in 1..Len(point) : IsDigits(point[i])
       /\ \E i \in 1..Len(point) : Len(point[i]) > 0
       /\ Len(Unsigned(exponent)) > 0
       /\ IsDigits(Unsigned(exponent))
    THEN Scaled(negative, point[1],
                IF Len(point) = 2 THEN point[2] ELSE <<>>,
                Exponent(exponent))
    ELSE NotANumber

\* a number without its sign, in lower case, split at "e"
Unsplit(negative, parts) ==
    IF parts = << <<"n", "a", "n">> >> THEN [kind |-> "nan"]
    ELSE IF parts \in {<< <<"i", "n", "f">> >>,
                       << <<"i", "n", "f", "i", "n", "i", "t", "y">> >>}
    THEN [kind |-> "inf"]
    ELSE IF Len(parts) \notin {1, 2} THEN NotANumber
    ELSE The({Decimal(negative, point,
                      IF Len(parts) = 2 THEN parts[2] ELSE <<"0">>) :
                 point \in {Split(parts[1], ".")}})

\* float(text) for a stripped text: "nan", "inf", a decimal number with an
\* optional fraction and exponent, or not a number at all.  The number is
\* kept as its whole part and whether a fraction is left, which is exact
\* as long as it has fewer than 16 significant digits.
FloatOf(text) ==
    The({Unsplit(Len(text) > 0 /\ text[1] = "-", parts) :
            parts \in {Split(LowerText(Unsigned(text)), "e")}})

\* int(f): the whole part, ValueError for what is no number and for nan,
\* OverflowError for an infinity
IntOf(f) ==
    CASE f.kind = "number" ->
             [kind |-> "int",
              value |-> IF f.negative THEN 0 - f.whole ELSE f.whole]
      [] f.kind = "inf" -> [kind |-> "OverflowError", value |-> 0]
      [] OTHER -> [kind |-> "ValueError", value |-> 0]

\* int(float(text))
IntOfFloat(text) == The({IntOf(f) : f \in {FloatOf(text)}})

\* a hit's duration: None, or a number of seconds
NoDuration == [set |-> FALSE, seconds |-> 0]
Duration(n) == [set |-> TRUE, seconds |-> n]

MaxSearchDuration == 15 * 60

\* lines 463-466: the line is stripped, then split at the tabs
IdParts(raw) == Split(Strip(raw), Tab)

\* line 481
TooLong(duration, limit) == duration.set /\ duration.seconds > limit

\* lines 467-496 for the stripped fields of one line and its converted
\* duration: it is skipped, it gives a hit, or the conversion raises an
\* exception other than ValueError
FieldsHit(fields, converted) ==
    LET field(i) == IF Len(fields) >= i THEN fields[i] ELSE <<>>
        duration == IF field(4) # <<>> /\ converted.kind = "int"
                    THEN Duration(converted.value) ELSE NoDuration
        hit == [id |-> field(1),
                title |-> IF field(2) # <<>> THEN field(2) ELSE field(1),
                uploader |-> field(3),
                duration |-> duration,
                webpage_url |->
                    IF StartsWithText(field(5), TxtHttp)
                           \/ StartsWithText(field(5), TxtHttps)
                    THEN field(5) ELSE TxtWatchUrl \o field(1)]
    IN  IF Len(fields) < 2 \/ field(1) = <<>>
        THEN [kind |-> "skip", hit |-> hit]
        ELSE IF field(4) # <<>> /\ converted.kind = "OverflowError"
        THEN [kind |-> "OverflowError", hit |-> hit]
        ELSE IF TooLong(duration, MaxSearchDuration)
        THEN [kind |-> "skip", hit |-> hit]
        ELSE [kind |-> "hit", hit |-> hit]

PartsHit(parts) ==
    The({FieldsHit(fields,
                   IntOfFloat(IF Len(fields) >= 4 THEN fields[4]
                              ELSE <<>>)) :
            fields \in {[i \in 1..Len(parts) |-> Strip(parts[i])]}})

\* lines 463-496 for one line of the output
LineHit(raw) ==
    IF Strip(raw) = <<>> THEN [kind |-> "skip", hit |-> <<>>]
    ELSE The({PartsHit(parts) : parts \in {IdParts(raw)}})

\* lines 461-497: the hits of the lines in their order, or the exception
Results(each) ==
    LET kept == SelectSeq(each, LAMBDA r : r.kind = "hit")
    IN  IF \E i \in 1..Len(each) : each[i].kind = "OverflowError"
        THEN [raised |-> TRUE, hits |-> <<>>]
        ELSE [raised |-> FALSE,
              hits |-> [i \in 1..Len(kept) |-> kept[i].hit]]

SearchResults(lines) ==
    The({Results(each) :
            each \in {[i \in 1..Len(lines) |-> LineHit(lines[i])]}})

(***************************************************************************)
(* The files the download looks at.  `library` is the set of paths that    *)
(* exist; what each path is, is fixed: regular files, a directory, a file  *)
(* that cannot be opened, and a symbolic link to a file elsewhere.  No     *)
(* path begins with "~", so expanduser() changes none.                     *)
(***************************************************************************)
FilePaths ==
    {PathSong, PathCover, PathAlbum, PathLocked, PathLink, PathReal}
Directories == {PathAlbum}
Unreadable == {PathLocked}
LinkTarget(path) == IF path = PathLink THEN PathReal ELSE path

SUPPORTED_AUDIO_EXTENSIONS ==
    {<<"m", "p", "3">>, <<"a", "a", "c">>, <<"f", "l", "a", "c">>,
     <<"o", "g", "g">>, <<"w", "a", "v">>, <<"m", "4", "a">>}

\* the last index of a character in a text, 0 when it does not occur
LastIndex(text, c) ==
    LET at == {i \in 1..Len(text) : text[i] = c}
    IN  IF at = {} THEN 0 ELSE CHOOSE i \in at : \A j \in at : j <= i

\* Path.name and Path.parent
Name(path) == SubSeq(path, LastIndex(path, "/") + 1, Len(path))
Parent(path) == SubSeq(path, 1, LastIndex(path, "/") - 1)

\* Path.suffix.lower().lstrip(".")
Extension(path) ==
    LET name == Name(path)
        dot == LastIndex(name, ".")
    IN  IF dot <= 1 \/ dot = Len(name) THEN <<>>
        ELSE LowerText(SubSeq(name, dot + 1, Len(name)))

\* Path.resolve(), Path.exists(), Path.is_file(); a link is followed
Resolve(path) == IF path \in library THEN LinkTarget(path) ELSE path
Exists(path) == path \in library /\ Resolve(path) \in library
IsFile(path) == Exists(path) /\ Resolve(path) \notin Directories

\* st_mtime of the file a path leads to: the order in which the files
\* were last written
ModifiedOrder == <<PathCover, PathSong, PathReal, PathLocked, PathAlbum>>
Mtime(path) ==
    CHOOSE i \in 1..Len(ModifiedOrder) : ModifiedOrder[i] = Resolve(path)

\* str(app_id) for an id of one digit
Str(app_id) == <<Digits[app_id + 1]>>

AppDownloadDir(app_id) == DownloadsDir \o <<"/">> \o Str(app_id)

\* variant: the extension of the printed file is not looked at
QualifiesAnyExtension(path) == Exists(path) /\ IsFile(path)

\* lines 922-926
Qualifies(path) ==
    /\ Exists(path)
    /\ IsFile(path)
    /\ Extension(path) \in SUPPORTED_AUDIO_EXTENSIONS

\* variant: only the first printed line is looked at
ExtractFirstLineOnly(lines, base_dir) ==
    LET resolved == [i \in 1..Len(lines) |->
                        Resolve(IF lines[i][1] = "/" THEN lines[i]
                                ELSE base_dir \o <<"/">> \o lines[i])]
        good == {i \in {1} : i <= Len(lines) /\ Qualifies(resolved[i])}
    IN  IF good = {} THEN None
        ELSE resolved[CHOOSE i \in good : \A j \in good : j <= i]

\* _extract_downloaded_path: the lines are scanned from the last to the
\* first; they have been stripped and are not empty (lines 570-572)
ExtractDownloadedPath(lines, base_dir) ==
    LET resolved == [i \in 1..Len(lines) |->
                        Resolve(IF lines[i][1] = "/" THEN lines[i]
                                ELSE base_dir \o <<"/">> \o lines[i])]
        good == {i \in 1..Len(lines) : Qualifies(resolved[i])}
    IN  IF good = {} THEN None
        ELSE resolved[CHOOSE i \in good : \A j \in good : j <= i]

\* _find_latest_audio_file, the directory existing since line 542
FindLatestAudioFile(directory) ==
    LET audio_files == {path \in library :
                           /\ Parent(path) = directory
                           /\ IsFile(path)
                           /\ Extension(path) \in SUPPORTED_AUDIO_EXTENSIONS}
    IN  IF audio_files = {} THEN None
        ELSE CHOOSE path \in audio_files :
                 \A other \in audio_files : Mtime(other) <= Mtime(path)

(***************************************************************************)
(* The track registry: a function from str(app_id) to the entry.           *)
(***************************************************************************)
DefaultVolume == 100
DefaultStartOffset == 0

NoTracks == <<>>

Entry(app_id, path, filename, old) ==
    [app_id |-> app_id, path |-> path, filename |-> filename,
     volume |-> old.volume, start_offset |-> old.start_offset,
     loop |-> old.loop]

\* self._tracks.get(key, {}) read with the defaults of lines 146-148;
\* the volume in hundredths
\* variant: the settings of the entry that is there are not read
PreviousForgotten(registry, key) ==
    [volume |-> DefaultVolume, start_offset |-> DefaultStartOffset,
     loop |-> TRUE]

\* lines 146-148: self._tracks.get(key, {}).get(..., default)
Previous(registry, key) ==
    IF key \in DOMAIN registry THEN registry[key]
    ELSE [volume |-> DefaultVolume, start_offset |-> DefaultStartOffset,
          loop |-> TRUE]

\* set_track: the registry with the new entry, or the error raised
SetTrack(registry, app_id, path, filename) ==
    LET key == Str(app_id)
        resolved == Resolve(path)
        entry == Entry(app_id, resolved, filename, Previous(registry, key))
    IN  IF ~(resolved \in library /\ resolved \notin Directories)
        THEN [ok |-> FALSE, tracks |-> registry,
              error |-> Error("ValueError", TxtFileNotFound \o resolved)]
        ELSE IF resolved \in Unreadable
        THEN [ok |-> FALSE, tracks |-> registry,
              error |-> Error("PermissionError",
                              TxtPermissionDenied \o resolved)]
        ELSE [ok |-> TRUE,
              tracks |-> [k \in DOMAIN registry \cup {key} |->
                             IF k = key THEN entry ELSE registry[k]],
              error |-> Error("none", <<>>)]

(***************************************************************************)
(* The media operations.  `request` holds the arguments of the last call,  *)
(* `launched` the commands it started, `toolRun` how the tool ended and    *)
(* `reply` what the call returned or raised.                               *)
(***************************************************************************)
NoRequest == [op |-> "none", text |-> <<>>, app_id |-> 0, limit |-> 0]
Request(op, text, app_id, limit) ==
    [op |-> op, text |-> text, app_id |-> app_id, limit |-> limit]

\* the tool ended with an exit code, or subprocess.run raised
NoRun == [kind |-> "none", result |-> ResOk]
Completed(res) == [kind |-> "completed", result |-> res]
Aborted(kind) == [kind |-> kind, result |-> ResOk]

ResFailBoth == CompletedProcess(1, <<TxtProgress>>, <<TxtErrShort>>)
FailedRuns ==
    {Completed(r) : r \in {ResFailSilent, ResFailShort, ResFailBoth}}
        \cup {Aborted(kind) : kind \in Exceptions}
Printed(lines) == Completed(CompletedProcess(0, lines, <<>>))

Command(invocation, op, text, limit) ==
    [program |-> invocation.path, op |-> op, text |-> text,
     limit |-> limit]

NoError == Error("none", <<>>)
NoOutcome ==
    [kind |-> "none", error |-> NoError, hits |-> <<>>, url |-> <<>>,
     path |-> <<>>, filename |-> <<>>]
Raised(err) == [NoOutcome EXCEPT !.kind = "raised", !.error = err]
Running == [NoOutcome EXCEPT !.kind = "running"]
Found(hits) == [NoOutcome EXCEPT !.kind = "returned", !.hits = hits]
Stream(url) == [NoOutcome EXCEPT !.kind = "returned", !.url = url]
Downloaded(path, filename) ==
    [NoOutcome EXCEPT !.kind = "returned", !.path = path,
                      !.filename = filename]

\* _require_yt_dlp_invocation raises when the locator answers none
NotAvailable == Error("RuntimeError", TxtNotAvailable)

\* a command that did not end with exit code 0: the exception of
\* subprocess.run, or RuntimeError with the text of _command_error
RunError(run, fallback) ==
    IF run.kind # "completed"
    THEN Error(run.kind, ExceptionText(run.kind))
    ELSE Error("RuntimeError", CommandError(run.result, fallback))

RunFailed(run) == run.kind # "completed" \/ run.result.returncode # 0

InitNoMedia ==
    /\ tracks = NoTracks
    /\ library = {}
    /\ request = NoRequest
    /\ toolRun = NoRun
    /\ launched = <<>>
    /\ reply = NoOutcome

\* no download is waiting for its tool, and no update is running
MediaIdle == reply.kind # "running" /\ pc = "idle"

\* the error of the first check an operation fails before it starts the
\* tool, NoError when it passes them all
\* search_youtube, lines 441-445
SearchRejected(cleaned_query, yt_dlp) ==
    IF cleaned_query = <<>> THEN Error("ValueError", TxtQueryRequired)
    ELSE IF yt_dlp = NoInvocation THEN NotAvailable
    ELSE NoError

\* variant: the URL is normalized before the tool is looked for
PreviewRejectedUrlFirst(yt_dlp, normalized) ==
    IF ~normalized.ok THEN normalized.error
    ELSE IF yt_dlp = NoInvocation THEN NotAvailable
    ELSE NoError

\* get_youtube_preview_stream, lines 504-505
PreviewRejected(yt_dlp, normalized) ==
    IF yt_dlp = NoInvocation THEN NotAvailable
    ELSE IF ~normalized.ok THEN normalized.error
    ELSE NoError

\* variant: only negative app ids are refused
DownloadRejectedNegative(app_id, yt_dlp, normalized) ==
    IF app_id < 0 THEN Error("ValueError", TxtInvalidAppId)
    ELSE IF yt_dlp = NoInvocation THEN NotAvailable
    ELSE IF ~normalized.ok THEN normalized.error
    ELSE NoError

\* download_youtube_audio, lines 536-540
DownloadRejected(app_id, yt_dlp, normalized) ==
    IF app_id <= 0 THEN Error("ValueError", TxtInvalidAppId)
    ELSE IF yt_dlp = NoInvocation THEN NotAvailable
    ELSE IF ~normalized.ok THEN normalized.error
    ELSE NoError

SafeLimitMax == 25
SafeLimit(limit) ==
    IF limit < 1 THEN 1 ELSE IF limit > SafeLimitMax THEN SafeLimitMax
    ELSE limit

\* an operation that fails a check raises with no command started
Refused(err) ==
    /\ launched' = <<>>
    /\ toolRun' = NoRun
    /\ reply' = Raised(err)

\* search_youtube
SearchYoutube(queries, limits, runs) ==
    /\ MediaIdle
    /\ \E query \in queries, limit \in limits :
         LET cleaned_query == Strip(query)
             yt_dlp == ResolveYtDlpInvocation
             rejected == SearchRejected(cleaned_query, yt_dlp)
         IN  /\ request' = Request("search", query, 0, limit)
             /\ IF rejected # NoError THEN Refused(rejected)
                ELSE \E run \in runs :
                       LET results == SearchResults(run.result.stdout)
                       IN  /\ launched' =
                                  <<Command(yt_dlp, "search", cleaned_query,
                                            SafeLimit(limit))>>
                           /\ toolRun' = run
                           /\ reply' =
                                  IF RunFailed(run)
                                  THEN Raised(RunError(run, TxtSearchFailed))
                                  ELSE IF results.raised
                                  THEN Raised(Error("OverflowError", <<>>))
                                  ELSE Found(results.hits)
    /\ UNCHANGED <<envVars, fsVars, runVars, obsVars, located, binVars,
                   tracks, library, scanVars, nameVars, childVars>>

\* get_youtube_preview_stream
GetYoutubePreviewStream(urls, runs) ==
    /\ MediaIdle
    /\ \E video_url \in urls :
         LET yt_dlp == ResolveYtDlpInvocation
             normalized == NormalizeYoutubeUrl(video_url)
             rejected == PreviewRejected(yt_dlp, normalized)
         IN  /\ request' = Request("preview", video_url, 0, 0)
             /\ IF rejected # NoError THEN Refused(rejected)
                ELSE \E run \in runs :
                       LET lines ==
                               SelectSeq([i \in 1..Len(run.result.stdout) |->
                                             Strip(run.result.stdout[i])],
                                         LAMBDA l :
                                             \/ StartsWithText(l, TxtHttp)
                                             \/ StartsWithText(l, TxtHttps))
                       IN  /\ launched' = <<Command(yt_dlp, "preview",
                                                    normalized.url, 0)>>
                           /\ toolRun' = run
                           /\ reply' =
                                  IF RunFailed(run)
                                  THEN Raised(RunError(run, TxtPreviewFailed))
                                  ELSE IF lines = <<>>
                                  THEN Raised(Error("RuntimeError",
                                                    TxtNoStream))
                                  ELSE Stream(lines[1])
    /\ UNCHANGED <<envVars, fsVars, runVars, obsVars, located, binVars,
                   tracks, library, scanVars, nameVars, childVars>>

\* download_youtube_audio up to the end of the awaited command (lines
\* 536-564); `library` is what the filesystem holds when it has ended
DownloadYoutubeAudio(ids, urls, runs) ==
    /\ MediaIdle
    /\ \E app_id \in ids, video_url \in urls :
         LET yt_dlp == ResolveYtDlpInvocation
             normalized == NormalizeYoutubeUrl(video_url)
             rejected == DownloadRejected(app_id, yt_dlp, normalized)
         IN  /\ request' = Request("download", video_url, app_id, 0)
             /\ IF rejected # NoError THEN Refused(rejected)
                ELSE \E run \in runs :
                       /\ launched' = <<Command(yt_dlp, "download",
                                                normalized.url, 0)>>
                       /\ toolRun' = run
                       /\ reply' = Running
    /\ UNCHANGED <<envVars, fsVars, runVars, obsVars, located, binVars,
                   tracks, library, scanVars, nameVars, childVars>>

\* download_youtube_audio after the command has ended (lines 565-584)
DownloadCompleted ==
    /\ reply.kind = "running"
    /\ LET app_download_dir == AppDownloadDir(request.app_id)
           stdout == toolRun.result.stdout
           output_lines == SelectSeq([i \in 1..Len(stdout) |->
                                         Strip(stdout[i])],
                                     LAMBDA l : l # <<>>)
           extracted == ExtractDownloadedPath(output_lines,
                                              app_download_dir)
           downloaded_path ==
               IF extracted # None THEN extracted
               ELSE FindLatestAudioFile(app_download_dir)
           stored == SetTrack(tracks, request.app_id, downloaded_path,
                              Name(downloaded_path))
       IN  IF RunFailed(toolRun)
           THEN /\ reply' = Raised(RunError(toolRun,
                                              TxtDownloadRunFailed))
                /\ tracks' = tracks
           ELSE IF downloaded_path = None
           THEN /\ reply' = Raised(Error("RuntimeError", TxtNoAudioFile))
                /\ tracks' = tracks
           ELSE IF ~stored.ok
           THEN /\ reply' = Raised(stored.error)
                /\ tracks' = tracks
           ELSE /\ reply' = Downloaded(downloaded_path,
                                         Name(downloaded_path))
                /\ tracks' = stored.tracks
    /\ UNCHANGED <<envVars, fsVars, runVars, obsVars, located, binVars,
                   library, request, toolRun, launched, scanVars, nameVars,
                   childVars>>

(***************************************************************************)
(* _extract_app_ids_from_localconfig: the lines of a configuration file    *)
(* are read one by one.                                                    *)
(***************************************************************************)
Quote == "\""
Quoted(text) == <<Quote>> \o text \o <<Quote>>

TxtApps == <<"a", "p", "p", "s">>
TxtAppTickets == <<"a", "p", "p", "t", "i", "c", "k", "e", "t", "s">>

\* variant: the section of the ticket identifiers is trusted as well
TargetSectionsWithTickets == {TxtApps, TxtAppTickets}

\* line 657
TargetSections == {TxtApps}

\* re.fullmatch(r'"([^"]+)"', line): the name between the quotes, None
\* when the line is no quoted name
SectionMatch(line) ==
    IF /\ Len(line) >= 3
       /\ line[1] = Quote
       /\ line[Len(line)] = Quote
       /\ \A i \in 2..(Len(line) - 1) : line[i] # Quote
    THEN SubSeq(line, 2, Len(line) - 1)
    ELSE None

IdDigitsMax == 7

\* re.match(r'^"(\d{1,7})"', line): the digits between the quotes, None
\* when the line does not begin with such a token
IdMatch(line) ==
    LET sizes == {n \in 1..IdDigitsMax :
                     /\ Len(line) >= n + 2
                     /\ line[1] = Quote
                     /\ IsDigits(SubSeq(line, 2, n + 1))
                     /\ line[n + 2] = Quote}
    IN  IF sizes = {} THEN None
        ELSE SubSeq(line, 2, (CHOOSE n \in sizes : TRUE) + 1)

\* variant: the depth of the line is not looked at
AddedAtAnyDepth(line, level) ==
    IF IdMatch(line) # None /\ DigitsValue(IdMatch(line)) > 0
    THEN {DigitsValue(IdMatch(line))} ELSE {}

\* lines 678-686: the identifier a line adds at depth 1, as a set
Added(line, level) ==
    IF level = 1 /\ IdMatch(line) # None /\ DigitsValue(IdMatch(line)) > 0
    THEN {DigitsValue(IdMatch(line))} ELSE {}

\* variant: any "{" read outside a section enters one
EntersOnAnyBrace(pending, line) == line = <<"{">>

\* line 660: the line opens the section whose name is pending
Enters(pending, line) == pending # None /\ line = <<"{">>

\* variant: the section is left only below depth 0
ClosesBelowZero(level) == level - 1 < 0

\* line 673: a "}" read at this depth closes the section
Closes(level) == level - 1 <= 0

\* the name of a block is the quoted name on the line before its "{"
NameOn(line) ==
    IF SectionMatch(line) # None THEN LowerText(SectionMatch(line))
    ELSE None
Open(line) ==
    CASE line = <<"{">> -> Append(blocks, last_name)
      [] line = <<"}">> /\ blocks # <<>> ->
             SubSeq(blocks, 1, Len(blocks) - 1)
      [] OTHER -> blocks
UnderApps == blocks # <<>> /\ blocks[Len(blocks)] = TxtApps
Keyed(line) ==
    IF IdMatch(line) # None /\ DigitsValue(IdMatch(line)) > 0
    THEN {DigitsValue(IdMatch(line))} ELSE {}

\* what has been seen of the file after one more line that is not blank
Seen(line) ==
    /\ blocks' = Open(line)
    /\ last_name' = NameOn(line)
    /\ direct' = IF UnderApps
                      /\ \A i \in 1..(Len(blocks) - 1) : blocks[i] # TxtApps
                 THEN direct \cup Keyed(line) ELSE direct
    /\ clear' = IF UnderApps
                     /\ \A i \in 1..Len(blocks) : blocks[i] # TxtAppTickets
                THEN clear \cup Keyed(line) ELSE clear

\* one pass of the loop of lines 648-686
ScanLine(lines) ==
    \E raw_line \in lines :
      LET line == Strip(raw_line)
          section_match == SectionMatch(line)
      IN  /\ scanned' = scanned + 1
          /\ IF line = <<>>
             THEN UNCHANGED <<current_section, pending_section, depth,
                              app_ids, blocks, last_name, direct, clear>>
             ELSE /\ Seen(line)
                  /\ IF current_section = None
                     THEN IF /\ section_match # None
                             /\ LowerText(section_match) \in TargetSections
                          THEN /\ pending_section' = LowerText(section_match)
                               /\ UNCHANGED <<current_section, depth,
                                              app_ids>>
                          ELSE IF Enters(pending_section, line)
                          THEN /\ current_section' = pending_section
                               /\ pending_section' = None
                               /\ depth' = 1
                               /\ UNCHANGED app_ids
                          ELSE /\ pending_section' = None
                               /\ UNCHANGED <<current_section, depth,
                                              app_ids>>
                     ELSE IF line = <<"{">>
                     THEN /\ depth' = depth + 1
                          /\ UNCHANGED <<current_section, pending_section,
                                         app_ids>>
                     ELSE IF line = <<"}">>
                     THEN /\ depth' = IF Closes(depth) THEN 0 ELSE depth - 1
                          /\ current_section' =
                                 IF Closes(depth) THEN None
                                 ELSE current_section
                          /\ UNCHANGED <<pending_section, app_ids>>
                     ELSE /\ app_ids' = app_ids \cup Added(line, depth)
                          /\ UNCHANGED <<current_section, pending_section,
                                         depth>>
      /\ UNCHANGED <<envVars, fsVars, runVars, obsVars, located, binVars,
                     mediaVars, nameVars, childVars>>

\* lines 638-647: nothing read yet
InitScan ==
    /\ current_section = None
    /\ pending_section = None
    /\ depth = 0
    /\ app_ids = {}
    /\ scanned = 0
    /\ blocks = <<>>
    /\ last_name = None
    /\ direct = {}
    /\ clear = {}

(***************************************************************************)
(* The registry's own operations: each runs from its first line to its     *)
(* return without an await that suspends it.                               *)
(***************************************************************************)
\* line 30: 1.0, in hundredths
VolumeMaximum == 100
\* line 34
SecondsMaximum == 30

\* lines 30-31 and 34-35: max(minimum, min(maximum, value))
Clamp(value, minimum, maximum) ==
    LET low == IF value < maximum THEN value ELSE maximum
    IN  IF low > minimum THEN low ELSE minimum

\* lines 129-157, called by the front end
SetTrackCall(ids, paths) ==
    /\ \E app_id \in ids, path \in paths :
          tracks' = SetTrack(tracks, app_id, path, Name(path)).tracks
    /\ UNCHANGED <<envVars, fsVars, runVars, obsVars, located, binVars,
                   library, request, toolRun, launched, reply, scanVars,
                   nameVars, childVars>>

\* lines 187-195
SetVolume(ids, volumes) ==
    /\ \E app_id \in ids, volume \in volumes :
          LET key == Str(app_id)
          IN  tracks' =
                  IF key \notin DOMAIN tracks THEN tracks
                  ELSE [tracks EXCEPT
                            ![key].volume = Clamp(volume, 0, VolumeMaximum)]
    /\ UNCHANGED <<envVars, fsVars, runVars, obsVars, located, binVars,
                   library, request, toolRun, launched, reply, scanVars,
                   nameVars, childVars>>

\* lines 197-205
SetStartOffset(ids, offsets) ==
    /\ \E app_id \in ids, start_offset \in offsets :
          LET key == Str(app_id)
          IN  tracks' =
                  IF key \notin DOMAIN tracks THEN tracks
                  ELSE [tracks EXCEPT
                            ![key].start_offset =
                                Clamp(start_offset, 0, SecondsMaximum)]
    /\ UNCHANGED <<envVars, fsVars, runVars, obsVars, located, binVars,
                   library, request, toolRun, launched, reply, scanVars,
                   nameVars, childVars>>

\* lines 207-213
SetLoop(ids) ==
    /\ \E app_id \in ids, loop \in BOOLEAN :
          LET key == Str(app_id)
          IN  tracks' =
                  IF key \notin DOMAIN tracks THEN tracks
                  ELSE [tracks EXCEPT ![key].loop = loop]
    /\ UNCHANGED <<envVars, fsVars, runVars, obsVars, located, binVars,
                   library, request, toolRun, launched, reply, scanVars,
                   nameVars, childVars>>

\* lines 215-218
RemoveTrack(ids) ==
    /\ \E app_id \in ids :
          tracks' = [key \in DOMAIN tracks \ {Str(app_id)} |-> tracks[key]]
    /\ UNCHANGED <<envVars, fsVars, runVars, obsVars, located, binVars,
                   library, request, toolRun, launched, reply, scanVars,
                   nameVars, childVars>>

(***************************************************************************)
(* resolve_store_app_names: the bulk lookup in chunks, then the lookups    *)
(* against the community site behind a semaphore.                          *)
(***************************************************************************)
\* line 87
ChunkSize == 20
\* line 105
SemaphoreValue == 2

\* str(app_id), for identifiers below 100
StrId(app_id) ==
    IF app_id < 10 THEN <<Digits[app_id + 1]>>
    ELSE <<Digits[(app_id \div 10) + 1], Digits[(app_id % 10) + 1]>>

\* lines 75-82: the positive values, each once, in ascending order
UniqueIds(values) ==
    LET kept == {v \in Range(values) : v > 0}
    IN  [i \in 1..Cardinality(kept) |->
            CHOOSE x \in kept : Cardinality({y \in kept : y < x}) = i - 1]

\* line 89: unique_ids[index : index + chunk_size]
ChunkAt(ids, start) ==
    SubSeq(ids, start + 1,
           IF start + ChunkSize < Len(ids) THEN start + ChunkSize
           ELSE Len(ids))

\* dict.update
Update(old, new) ==
    [k \in DOMAIN old \cup DOMAIN new |->
        IF k \in DOMAIN new THEN new[k] ELSE old[k]]

NamedBy(ids, source) == [k \in {StrId(id) : id \in ids} |-> source]

\* variant: every identifier goes to the fallback
UnresolvedIdsAll(ids, names) == Range(ids)

\* line 99
UnresolvedIds(ids, names) ==
    {id \in Range(ids) : StrId(id) \notin DOMAIN names}

\* the identifiers the store has no name for
Unlisted == {1, 2, 3, 21, 22}
\* the bulk phase leaves at most this many identifiers without a name
MaxUnresolved == 4

\* lines 690-700 and 93-97: the identifiers of a chunk that the store
\* names; none when the lookup of the chunk raises
ChunkOutcomes(ids) ==
    {Range(ids) \ miss : miss \in SUBSET (Range(ids) \cap Unlisted)}
        \cup {{}}

\* variant: a task never waits for the semaphore
CanAcquireAlways(value) == TRUE

\* asyncio.Semaphore.acquire without waiting
CanAcquire(value) == value > 0

\* lines 99-105: after the last chunk, the tasks of the fallback
AfterBulk(names) ==
    LET unresolved_ids == UnresolvedIds(unique_ids, names)
    IN  IF unresolved_ids = {}
        THEN /\ names_pc' = "returned"
             /\ UNCHANGED <<tasks, semaphore>>
        ELSE /\ names_pc' = "community"
             /\ tasks' = [id \in unresolved_ids |-> "pending"]
             /\ semaphore' = SemaphoreValue

\* lines 74-92: the call, up to the first chunk handed to a thread
ResolveStoreAppNames(requests) ==
    /\ names_pc = "idle"
    /\ \E values \in requests :
          /\ unique_ids' = UniqueIds(values)
          /\ resolved_names' = <<>>
          /\ index' = 0
          /\ IF unique_ids' = <<>>
             THEN /\ names_pc' = "returned"
                  /\ chunk' = <<>>
             ELSE /\ names_pc' = "bulk"
                  /\ chunk' = ChunkAt(unique_ids', 0)
    /\ UNCHANGED <<tasks, semaphore, started>>
    /\ UNCHANGED <<envVars, fsVars, runVars, obsVars, located, binVars,
                   mediaVars, scanVars, childVars>>

\* lines 88-97: the thread of a chunk has ended; the next chunk is handed
\* over, or the fallback begins
BulkChunkDone ==
    /\ names_pc = "bulk"
    /\ \E named \in ChunkOutcomes(chunk) :
          LET names == Update(resolved_names, NamedBy(named, "store"))
              next == index + ChunkSize
              seen == SubSeq(unique_ids, 1, index + Len(chunk))
          IN  /\ Cardinality(UnresolvedIds(seen, names)) <= MaxUnresolved
              /\ resolved_names' = names
              /\ index' = next
              /\ IF next < Len(unique_ids)
                 THEN /\ chunk' = ChunkAt(unique_ids, next)
                      /\ UNCHANGED <<names_pc, tasks, semaphore>>
                 ELSE /\ chunk' = <<>>
                      /\ AfterBulk(names)
    /\ UNCHANGED <<unique_ids, started>>
    /\ UNCHANGED <<envVars, fsVars, runVars, obsVars, located, binVars,
                   mediaVars, scanVars, childVars>>

\* lines 107-110: a task enters the semaphore and hands its lookup to a
\* thread
Acquire ==
    /\ names_pc = "community"
    /\ CanAcquire(semaphore)
    /\ \E id \in DOMAIN tasks :
          /\ tasks[id] = "pending"
          /\ tasks' = [tasks EXCEPT ![id] = "lookup"]
          /\ started' = Append(started, id)
    /\ semaphore' = semaphore - 1
    /\ UNCHANGED <<names_pc, unique_ids, index, chunk, resolved_names>>
    /\ UNCHANGED <<envVars, fsVars, runVars, obsVars, located, binVars,
                   mediaVars, scanVars, childVars>>

\* lines 109-119: the lookup of a task has ended with a name, with none or
\* with an error, and the task leaves the semaphore
LookupDone ==
    /\ names_pc = "community"
    /\ \E id \in DOMAIN tasks :
          /\ tasks[id] = "lookup"
          /\ \E community_name \in {"named", "unnamed"} :
                tasks' = [tasks EXCEPT ![id] = community_name]
    /\ semaphore' = semaphore + 1
    /\ UNCHANGED <<names_pc, unique_ids, index, chunk, resolved_names,
                   started>>
    /\ UNCHANGED <<envVars, fsVars, runVars, obsVars, located, binVars,
                   mediaVars, scanVars, childVars>>

\* lines 121-127: every task has ended
Gathered ==
    /\ names_pc = "community"
    /\ \A id \in DOMAIN tasks : tasks[id] \in {"named", "unnamed"}
    /\ resolved_names' =
           Update(resolved_names,
                  NamedBy({id \in DOMAIN tasks : tasks[id] = "named"},
                          "community"))
    /\ names_pc' = "returned"
    /\ UNCHANGED <<unique_ids, index, chunk, tasks, semaphore, started>>
    /\ UNCHANGED <<envVars, fsVars, runVars, obsVars, located, binVars,
                   mediaVars, scanVars, childVars>>

\* no call yet
InitNames ==
    /\ names_pc = "idle"
    /\ unique_ids = <<>>
    /\ index = 0
    /\ chunk = <<>>
    /\ resolved_names = <<>>
    /\ tasks = <<>>
    /\ semaphore = 0
    /\ started = <<>>

(***************************************************************************)
(* _run_command: the environment of the process it launches.               *)
(***************************************************************************)
NameLdLibraryPath == "LD_LIBRARY_PATH"
NamePythonHome == "PYTHONHOME"
NamePythonPath == "PYTHONPATH"

\* variant: PYTHONPATH is left in the copy
PoppedNamesWithoutPythonPath == {NameLdLibraryPath, NamePythonHome}

\* lines 852-854
PoppedNames == {NameLdLibraryPath, NamePythonHome, NamePythonPath}

\* dict.pop(name, None), for every name of a set
Pop(mapping, names) == [k \in DOMAIN mapping \ names |-> mapping[k]]

\* lines 851-856
RunEnv(inherited, env) ==
    LET copy == Pop(inherited, PoppedNames)
    IN  IF env # None /\ DOMAIN env # {} THEN Update(copy, env) ELSE copy

\* lines 846-864: the process is launched with the environment built from
\* os.environ and the overrides of the caller
RunCommand(environments, envs) ==
    /\ ~spawned
    /\ \E inherited \in environments, env \in envs :
          /\ environ' = inherited
          /\ overrides' = env
          /\ run_env' = RunEnv(inherited, env)
    /\ spawned' = TRUE
    /\ UNCHANGED <<envVars, fsVars, runVars, obsVars, located, binVars,
                   mediaVars, scanVars, nameVars>>

\* nothing launched yet
InitChild ==
    /\ spawned = FALSE
    /\ environ = <<>>
    /\ overrides = None
    /\ run_env = <<>>

(***************************************************************************)
(* Specifications.                                                         *)
(***************************************************************************)
InitRun ==
    /\ pc = "idle"
    /\ venvError = None
    /\ pipError = None
    /\ error = None
    /\ errors = <<>>
    /\ urlIndex = 1
    /\ transport = FirstTransport
    /\ result = NoStatus
    /\ raisedFrom = "none"
    /\ message = None
    /\ attempts = <<>>
    /\ sourceAfterVenv = "unset"
    /\ dlLog = <<>>
    /\ located = NotLocated

\* every state of the filesystem and of the search path the plugin can
\* start an update from
Init ==
    /\ python3 \in BOOLEAN
    /\ curlPath \in BOOLEAN
    /\ wgetPath \in BOOLEAN
    /\ systemYtDlp \in BOOLEAN
    /\ venvYtDlp \in FileModes
    /\ venvPython = (venvYtDlp # "absent")
    /\ userYtDlp \in FileModes
    /\ ytDlpPath \in {NoBinary} \cup
           {[exists |-> TRUE, content |-> OldBinary, executable |-> x] :
                x \in BOOLEAN}
    /\ ytDlpPath0 = ytDlpPath
    /\ tempPath = AbsentFile
    /\ InitRun
    /\ candidate = AbsentFile
    /\ verdict = "none"
    /\ InitNoMedia
    /\ InitScan
    /\ InitNames
    /\ InitChild

Next ==
    \/ Start
    \/ VenvCreate
    \/ VenvPip
    \/ Status1
    \/ DownloadCurl
    \/ DownloadWget
    \/ DownloadUrllib
    \/ Install
    \/ PostVersion
    \/ Pip
    \/ Status3
    \/ Status2
    \/ Locate
    \/ GetYtDlpStatus

Spec == Init /\ [][Next]_vars

\* _is_valid_yt_dlp_binary on every candidate content of the bounds
InitBinary ==
    /\ python3 = FALSE
    /\ curlPath = FALSE
    /\ wgetPath = FALSE
    /\ systemYtDlp = FALSE
    /\ venvPython = FALSE
    /\ venvYtDlp = "absent"
    /\ userYtDlp = "absent"
    /\ ytDlpPath = NoBinary
    /\ ytDlpPath0 = NoBinary
    /\ tempPath = AbsentFile
    /\ InitRun
    /\ candidate \in {FileWith(c) : c \in Contents}
    /\ verdict = "unchecked"
    /\ InitNoMedia
    /\ InitScan
    /\ InitNames
    /\ InitChild

NextBinary == Validate

SpecBinary == InitBinary /\ [][NextBinary]_vars

(***************************************************************************)
(* The media operations: inputs and specifications.                        *)
(***************************************************************************)
\* the locator's candidates for the media operations: the tool is on the
\* search path or nowhere
InitTool ==
    /\ python3 = FALSE
    /\ curlPath = FALSE
    /\ wgetPath = FALSE
    /\ systemYtDlp \in BOOLEAN
    /\ venvPython = FALSE
    /\ venvYtDlp = "absent"
    /\ userYtDlp = "absent"
    /\ ytDlpPath = NoBinary
    /\ ytDlpPath0 = NoBinary
    /\ tempPath = AbsentFile
    /\ InitRun
    /\ candidate = AbsentFile
    /\ verdict = "none"
    /\ request = NoRequest
    /\ toolRun = NoRun
    /\ launched = <<>>
    /\ reply = NoOutcome
    /\ InitScan
    /\ InitNames
    /\ InitChild

\* every call is applied to a plugin that has answered its earlier calls
Fresh == request.op = "none"

\* output lines of a search: five, two or one tab-separated fields
IdFields == {<<>>, VideoId}
TitleFields == {TxtSong}
DurationFields ==
    {<<>>, TxtNA, Txt900, Txt900Point9, Txt901Point0, Txt1e3, TxtInf,
     TxtNan}
UrlFields == {<<>>, TxtWatchUrl \o VideoId, TxtWatchPath}
SearchLines ==
    {JoinWith(<<id, title, TxtChannel, duration, url>>, <<Tab>>) :
        id \in IdFields, title \in TitleFields,
        duration \in DurationFields, url \in UrlFields}
      \cup {JoinWith(<<id, title>>, <<Tab>>) :
               id \in IdFields, title \in TitleFields}
      \cup IdFields \cup {<<" ">>}
SearchOutputs == SeqsUpTo(SearchLines, MaxSearchLines)

SearchAny ==
    Fresh /\ SearchYoutube({TxtLofi}, {10},
                           {Printed(out) : out \in SearchOutputs})

InitSearch == InitTool /\ tracks = NoTracks /\ library = {}
NextSearch == SearchAny
SpecSearch == InitSearch /\ [][NextSearch]_vars

\* URLs put together from at most MaxUrlPieces pieces
UrlPieces ==
    {TxtHttps, TxtFtp, <<"/", "/">>, TxtWww, HostYoutube, TxtMixedHost,
     HostWwwYoutube, HostMobile, HostMusic, HostShort, HostVimeo,
     TxtEvilTail, TxtWatchTail, VideoId, <<" ">>, <<"@">>, TxtPort,
     TxtQueryTail, TxtFragmentTail, <<"/">>}
UrlInputs ==
    {JoinWith(pieces, <<>>) : pieces \in SeqsUpTo(UrlPieces, MaxUrlPieces)}

UrlPreview ==
    Fresh /\ GetYoutubePreviewStream(UrlInputs, {Printed(<<TxtStream>>)})
UrlDownload ==
    Fresh /\ DownloadYoutubeAudio({1}, UrlInputs, {Printed(<<PathSong>>)})

InitUrl == InitTool /\ tracks = NoTracks /\ library = {PathSong}
NextUrl == UrlPreview \/ UrlDownload \/ DownloadCompleted
SpecUrl == InitUrl /\ [][NextUrl]_vars

\* the three operations with every input class, every way the tool can
\* end and every set of files it can leave
SearchQueries == {<<>>, <<" ", Tab>>, TxtLofi}
SearchLimits == {0, 10, 30}
AppIds == -1..2
MediaUrls == {<<>>, TxtWatchUrl \o VideoId, TxtVimeoUrl}
PrintedLines ==
    {PathSong, RelSong, PathCover, PathAlbum, PathLocked, PathLink,
     TxtProgress, <<" ">>}
\* the files present when the tool has ended
Libraries == SUBSET FilePaths

MediaSearch ==
    Fresh /\ SearchYoutube(SearchQueries, SearchLimits,
                  {Printed(<<line>>) : line \in IdFields} \cup FailedRuns)
MediaPreview ==
    Fresh /\ GetYoutubePreviewStream(MediaUrls,
        {Printed(<<TxtStream>>), Printed(<<TxtProgress>>)}
            \cup FailedRuns)
MediaDownload ==
    Fresh /\ DownloadYoutubeAudio(AppIds, MediaUrls,
        {Printed(out) : out \in SeqsUpTo(PrintedLines, MaxPrinted)}
            \cup FailedRuns)

\* registries a call can find: empty, or holding an entry whose settings
\* were changed by set_volume, set_start_offset and set_loop
OldEntry ==
    [app_id |-> 1, path |-> PathCover, filename |-> Name(PathCover),
     volume |-> 40, start_offset |-> 12, loop |-> FALSE]
Registries ==
    {NoTracks, [key \in {Str(1)} |-> OldEntry],
     [key \in {Str(2)} |-> [OldEntry EXCEPT !.app_id = 2]]}

InitMedia ==
    /\ InitTool
    /\ tracks \in Registries
    /\ library \in Libraries
NextMedia ==
    \/ MediaSearch
    \/ MediaPreview
    \/ MediaDownload
    \/ DownloadCompleted
SpecMedia == InitMedia /\ [][NextMedia]_vars

\* configuration files of at most MaxConfigLines lines, read line by line
LineOpen == <<"{">>
LineClose == <<"}">>
LineApps == Quoted(TxtApps)
LineAppsCapital == Quoted(<<"A", "p", "p", "s">>)
LineAppTickets == Quoted(TxtAppTickets)
Line440 == <<Tab>> \o Quoted(<<"4", "4", "0">>)
Line9999 == Quoted(<<"9", "9", "9", "9">>)
LineZero == Quoted(<<"0">>)
LineEightDigits == Quoted(<<"1", "2", "3", "4", "5", "6", "7", "8">>)
LineBlank == <<" ">>
ConfigLines ==
    {LineOpen, LineClose, LineApps, LineAppsCapital, LineAppTickets,
     Line440, Line9999, LineZero, LineEightDigits, LineBlank}

ScanAny == scanned < MaxConfigLines /\ ScanLine(ConfigLines)

InitConfig ==
    /\ InitTool
    /\ systemYtDlp = FALSE
    /\ tracks = NoTracks
    /\ library = {}
NextConfig == ScanAny
SpecConfig == InitConfig /\ [][NextConfig]_vars

(***************************************************************************)
(* Name resolution: the requests and the specification.                    *)
(***************************************************************************)
\* the lists a caller hands over: nothing, no positive value, three
\* identifiers with a repetition, and more identifiers than one chunk holds
NameRequests ==
    {<<>>, <<0, -1>>, <<3, 1, 2, 1>>, <<21, 30, 22>>,
     [i \in 1..22 |-> 23 - i]}

ResolveAny == ResolveStoreAppNames(NameRequests)

InitNamesSpec == InitTool /\ systemYtDlp = FALSE /\ tracks = NoTracks
                     /\ library = {}
NextNames ==
    \/ ResolveAny
    \/ BulkChunkDone
    \/ Acquire
    \/ LookupDone
    \/ Gathered
SpecNames == InitNamesSpec /\ [][NextNames]_vars

(***************************************************************************)
(* The environment of a launched process: inputs and specification.        *)
(***************************************************************************)
NamePath == "PATH"
NameHome == "HOME"
EnvNames == {NameLdLibraryPath, NamePythonHome, NamePythonPath, NamePath,
             NameHome}
EnvValues == {"/usr/lib", "/opt/alt"}

\* every mapping of some of the names to a value
Mappings(names, values) ==
    UNION {[chosen -> values] : chosen \in SUBSET names}

Environments == Mappings(EnvNames, EnvValues)
\* the overrides of a caller: none, or a mapping of at most two names
MaxOverrides == 2
Overrides ==
    {m \in Mappings(EnvNames, {"/opt/alt", "/home/deck"}) :
         Cardinality(DOMAIN m) <= MaxOverrides}

RunAny == RunCommand(Environments, Overrides)

InitEnv == InitTool /\ systemYtDlp = FALSE /\ tracks = NoTracks
               /\ library = {}
NextEnv == RunAny
SpecEnv == InitEnv /\ [][NextEnv]_vars

(***************************************************************************)
(* The registry under requests that overlap: one download, and the         *)
(* registry's own operations at any moment before, during and after it.    *)
(***************************************************************************)
RegistryIds == {1, 2}
RegistryPaths == {PathSong, PathLink, PathCover}
\* 55% and values below and above the range
VolumeInputs == {-10, 55, 150}
\* 7 seconds and values below and above the range
OffsetInputs == {-1, 7, 31}

RegistryDownload ==
    Fresh /\ DownloadYoutubeAudio(RegistryIds, {TxtWatchUrl \o VideoId},
                                  {Printed(<<PathSong>>), Printed(<<>>)})
RegistrySetTrack == SetTrackCall(RegistryIds, RegistryPaths)
RegistrySetVolume == SetVolume(RegistryIds, VolumeInputs)
RegistrySetStartOffset == SetStartOffset(RegistryIds, OffsetInputs)
RegistrySetLoop == SetLoop(RegistryIds)
RegistryRemoveTrack == RemoveTrack(RegistryIds)

InitRegistry ==
    /\ InitTool
    /\ systemYtDlp = TRUE
    /\ tracks \in Registries
    /\ library = {PathSong, PathLink, PathReal}
NextRegistry ==
    \/ RegistryDownload
    \/ DownloadCompleted
    \/ RegistrySetTrack
    \/ RegistrySetVolume
    \/ RegistrySetStartOffset
    \/ RegistrySetLoop
    \/ RegistryRemoveTrack
SpecRegistry == InitRegistry /\ [][NextRegistry]_vars

(***************************************************************************)
(* The media operations when the tool fails: runs and specification.       *)
(***************************************************************************)
\* only the standard output has text
ResFailOut == CompletedProcess(1, <<TxtProgress>>, <<>>)
\* the standard error has nothing but white space
ResFailBlankErr == CompletedProcess(1, <<TxtProgress>>, <<<<" ">>, <<>>>>)
\* several lines on both streams, the last line of the standard error blank
ResFailLines ==
    CompletedProcess(2, <<TxtProgress, TxtStream>>,
                     <<TxtProgress, TxtErrShort, <<>>>>)
\* both streams, with a line longer than the limit
ResFailBothLong == CompletedProcess(1, <<Filler(LongLine)>>, <<TxtErrShort>>)

FailingRuns ==
    {Completed(r) : r \in {ResFailSilent, ResFailShort, ResFailLong,
                           ResFailBoth, ResFailOut, ResFailBlankErr,
                           ResFailLines, ResFailBothLong}}

FailSearch == Fresh /\ SearchYoutube({TxtLofi}, {1, 10, 30}, FailingRuns)
FailPreview ==
    Fresh /\ GetYoutubePreviewStream({TxtWatchUrl \o VideoId, VideoId},
                                     FailingRuns)
FailDownload ==
    Fresh /\ DownloadYoutubeAudio({1, 2}, {TxtWatchUrl \o VideoId, VideoId},
                                  FailingRuns \cup {Printed(<<PathSong>>)})

InitFail == InitTool /\ tracks = NoTracks /\ library = {PathSong}
NextFail ==
    \/ FailSearch
    \/ FailPreview
    \/ FailDownload
    \/ DownloadCompleted
SpecFail == InitFail /\ [][NextFail]_vars

(***************************************************************************)
(* Claims about the tool locator.                                          *)
(***************************************************************************)
\* the four probes in their order: is the candidate present, and its path
ProbeHit(i) ==
    CASE i = 1 -> venvYtDlp = "exec"
      [] i = 2 -> systemYtDlp
      [] i = 3 -> userYtDlp = "exec"
      [] i = 4 -> ytDlpPath.exists /\ ytDlpPath.executable
ProbePath(i) ==
    CASE i = 1 -> "ytvenv/bin/yt-dlp"
      [] i = 2 -> "PATH/yt-dlp"
      [] i = 3 -> "~/.local/bin/yt-dlp"
      [] i = 4 -> "bin/yt-dlp"
Hits == {i \in 1..4 : ProbeHit(i)}
FirstHit == CHOOSE i \in Hits : \A j \in Hits : i <= j

\* C1: for every combination of present candidates, the answer of the
\* locator names the first present candidate in the order private
\* environment, search path, per-user install, fallback binary (its path
\* and its command), and it is none exactly when all four probes miss.
C1_LocateFirstPresent ==
    located # NotLocated =>
        IF Hits = {}
        THEN located = NoInvocation
        ELSE /\ located # NoInvocation
             /\ located.path = ProbePath(FirstHit)
             /\ located.command = <<ProbePath(FirstHit)>>

\* C1 witness: the per-user binary is answered although the fallback binary
\* is present too, the environment's binary existing but not executable.
C1_Witness ==
    /\ located.path = "~/.local/bin/yt-dlp"
    /\ venvYtDlp = "noexec"
    /\ ytDlpPath.exists /\ ytDlpPath.executable

(***************************************************************************)
(* Claims about the acquisition chain.                                     *)
(***************************************************************************)
\* C2: once update_yt_dlp has returned, the next answer of the locator is
\* not none.
C2_LocateAfterSuccess ==
    (pc = "returned" /\ located # NotLocated) => located # NoInvocation

\* C2 witness: the update returned after the download strategy and the
\* locator, asked afterwards, answers the fallback binary.
C2_Witness ==
    /\ pc = "returned"
    /\ attempts = <<"venv", "download">>
    /\ located.path = "bin/yt-dlp"

\* C3: update_yt_dlp never raises the failure of a single strategy (a
\* timeout or a launch failure of its command included): when it raises,
\* it raises the summary, after the last strategy has been tried.
C3_StrategyFailureNeverPropagates ==
    pc = "raised" =>
        /\ raisedFrom \notin {"venv", "pip"}
        /\ raisedFrom = "update" => "pip" \in {attempts[i] :
                                                 i \in DOMAIN attempts}

AllThreeFailed ==
    /\ pc = "raised"
    /\ raisedFrom = "update"
    /\ Len(venvError) > 0
    /\ Len(error) > 0
    /\ Len(pipError) > 0

\* the start of the download failure's text
DownloadText ==
    LET text == JoinSplit(error)
    IN  SubSeq(text, 1, IF Len(text) < 20 THEN Len(text) ELSE 20)

\* C4: when all three strategies failed, the raised message names each of
\* them: it holds the download failure's text, the label of the
\* environment build ("; venv: ") and the label of the package install
\* ("; pip: ").
C4_MessageNamesAllStrategies ==
    AllThreeFailed =>
        /\ Contains(message, DownloadText)
        /\ Contains(message, TxtVenvLabel)
        /\ Contains(message, TxtPipLabel)

Started(strategy) == strategy \in {attempts[i] : i \in DOMAIN attempts}

StrategyOrder ==
    attempts \in {<<>>, <<"venv">>, <<"venv", "download">>,
                  <<"venv", "download", "pip">>}

\* C5 as stated: the strategies start in the order environment build,
\* download, package install; the package install starts only when the
\* environment build reported a failure and the download failed; no
\* download starts when the tool was located in the environment or on the
\* search path after the build.
C5_PipOnlyAfterBothFailed ==
    /\ StrategyOrder
    /\ Started("pip") => (Len(venvError) > 0 /\ Len(error) > 0)
    /\ Started("download") => sourceAfterVenv \notin {"venv", "system"}

\* C5 amended: the strategies start in that order; the package install
\* starts only when the download step failed and the tool was not located
\* in the environment or on the search path after the build (the build
\* reported a failure or left no executable binary); no download starts
\* when the tool was so located.
C5_PipOnlyAfterDownloadFailed ==
    /\ StrategyOrder
    /\ Started("pip") =>
           /\ Len(error) > 0
           /\ Len(venvError) > 0 \/ venvYtDlp # "exec"
           /\ sourceAfterVenv \in {"none", "local"}
    /\ Started("download") => sourceAfterVenv \notin {"venv", "system"}

\* C5 witness: the package install has started after a build that reported
\* no failure but left a binary that cannot be executed.
C5_Witness ==
    /\ Started("pip")
    /\ venvError = None
    /\ venvYtDlp = "noexec"

(***************************************************************************)
(* Claims about the binary download.                                       *)
(***************************************************************************)
Transports == <<"curl", "wget", "urllib">>
Available(tr) ==
    CASE tr = "curl" -> curlPath
      [] tr = "wget" -> wgetPath
      [] tr = "urllib" -> TRUE
\* the transport+URL combinations in the order of the claim
Combos ==
    SelectSeq([i \in 1..(3 * UrlCount) |->
                  [transport |-> Transports[((i - 1) % 3) + 1],
                   url |-> ((i - 1) \div 3) + 1]],
              LAMBDA c : Available(c.transport))
DownloadOver == Started("download") /\ pc # "download"
NoAttemptPassed == \A i \in DOMAIN dlLog : dlLog[i].outcome # "ok"

\* C6: the attempts follow the order of the URLs and, per URL, of the
\* available transports; no attempt follows one whose file passed
\* validation; and the download fails only after every available
\* combination has been attempted and has failed.
C6_DownloadTriesEveryCombination ==
    /\ Len(dlLog) <= Len(Combos)
    /\ \A i \in DOMAIN dlLog :
           /\ dlLog[i].transport = Combos[i].transport
           /\ dlLog[i].url = Combos[i].url
           /\ dlLog[i].outcome = "ok" => i = Len(dlLog)
    /\ (DownloadOver /\ NoAttemptPassed) =>
           /\ Len(dlLog) = Len(Combos)
           /\ \A i \in DOMAIN dlLog : dlLog[i].outcome = "failed"

\* C7: bin/yt-dlp changes only by the rename of a temporary file that
\* passed the validation (the temporary file is gone in the same step),
\* and when no download attempt passed, bin/yt-dlp is as it was before the
\* update.
C7_FallbackOnlyReplacedByValidated ==
    /\ [][ytDlpPath' # ytDlpPath =>
              /\ tempPath.exists
              /\ IsValidYtDlpBinary(tempPath)
              /\ ytDlpPath'.content = tempPath.content
              /\ ytDlpPath'.exists
              /\ ~tempPath'.exists]_vars
    /\ [](NoAttemptPassed => ytDlpPath = ytDlpPath0)

\* C7 witness: a previously installed fallback binary has been replaced by
\* a downloaded one.
C7_Witness ==
    /\ ytDlpPath0.exists
    /\ ytDlpPath.content = NewBinary
    /\ ytDlpPath0.content = OldBinary

(***************************************************************************)
(* Claims about the binary validation.                                     *)
(***************************************************************************)
Checked == verdict \in {"valid", "invalid"}

\* a marker of an HTML document, in any of its spellings, lies within the
\* first 4096 bytes
HasHtmlMarker(content) ==
    \E i \in 1..Len(content) :
        /\ content[i].tok \in HtmlTokens
        /\ SizeUpTo(content, i) <= 4096

HasSignature(content) == Len(content) > 0 /\ content[1].tok \in SigTokens

\* C8: a candidate of 64 bytes or fewer is rejected, whatever it starts
\* with.
C8_RejectsUpTo64Bytes ==
    (Checked /\ Size(candidate.content) <= 64) => verdict = "invalid"

\* C9: a candidate with an HTML marker in its first 4096 bytes is
\* rejected, whatever its size and whatever it starts with.
C9_HtmlMarkerRejected ==
    (Checked /\ HasHtmlMarker(candidate.content)) => verdict = "invalid"

\* C9 witness: a candidate over 1 MiB that starts with the ELF signature
\* and holds an upper-case marker has been rejected.
C9_Witness ==
    /\ verdict = "invalid"
    /\ candidate.content = <<Lit("x7fELF"), Lit("<HTML"), Fill(1048577)>>

\* C10: a candidate of at least 64 bytes without an HTML marker in its
\* first 4096 bytes is accepted if and only if it starts with one of the
\* signatures or is larger than 1 MiB.
C10_SignatureOrLarge ==
    (Checked /\ Size(candidate.content) >= 64
        /\ ~HasHtmlMarker(candidate.content)) =>
        (verdict = "valid" <=>
            (HasSignature(candidate.content)
                \/ Size(candidate.content) > 1048576))

\* C10 witness: a candidate of exactly 1 MiB with no signature has been
\* rejected.
C10_Witness ==
    /\ verdict = "invalid"
    /\ candidate.content = <<Fill(1048576)>>


(***************************************************************************)
(* C11, C12: the locator as a read-only query, and its provenance values.  *)
(***************************************************************************)
\* a step of locate() or of a status call: no update is running and none
\* starts
QueryStep == pc \in {"idle", "returned", "raised"} /\ pc' = pc

\* C11: a locate() or status call leaves the filesystem and the environment
\* as they were, and a second call with no change in between gives the answer
\* of the first.
C11_LocateReadOnly ==
    [][QueryStep =>
          /\ fsVars' = fsVars
          /\ envVars' = envVars
          /\ located' = ResolveYtDlpInvocation
          /\ ResolveYtDlpInvocation' = ResolveYtDlpInvocation]_vars

\* a locator answer for a fallback binary that an update has put in place
C11_Witness ==
    /\ pc = "returned"
    /\ located = Invocation("local", "bin/yt-dlp")
    /\ ytDlpPath # ytDlpPath0

\* the provenance the four probes are to report, in probe order
ProbeProvenance == <<"venv", "system", "user", "local">>

\* C12: a tool found only by the per-user probe is reported with provenance
\* "user", a value different from "system"; every probe has its own value.
C12_UserProvenance ==
    (located # NotLocated /\ located # NoInvocation /\ Hits # {})
        => located.source = ProbeProvenance[FirstHit]


(***************************************************************************)
(* C13, C14: the errors of the media operations before the tool is run.    *)
(***************************************************************************)
\* the errors by the names the specification gives them
ToolUnavailable == Error("RuntimeError", TxtNotAvailable)
InvalidQuery == Error("ValueError", TxtQueryRequired)
InvalidAppId == Error("ValueError", TxtInvalidAppId)
UnsupportedHost == Error("ValueError", TxtOnlyYoutube)

Called == request.op # "none"
Failed(err) == reply.kind = "raised" /\ reply.error = err
ToolMissing == ResolveYtDlpInvocation = NoInvocation

\* the host of a URL with an authority part: what stands between the
\* first "//" and the next "/", "?" or "#", without user information and
\* port, in lower case and without a leading "www."
ClaimAuthority(url) ==
    LET starts == {i \in 1..(Len(url) - 1) : url[i] = "/" /\ url[i + 1] = "/"}
        from == (CHOOSE i \in starts : \A j \in starts : i <= j) + 2
        ends == {i \in from..Len(url) : url[i] \in {"/", "?", "#"}}
        to == IF ends = {} THEN Len(url)
              ELSE (CHOOSE i \in ends : \A j \in ends : i <= j) - 1
    IN  IF starts = {} THEN <<>> ELSE SubSeq(url, from, to)
ClaimHostOf(authority) ==
    LET ats == {i \in 1..Len(authority) : authority[i] = "@"}
        from == IF ats = {} THEN 1
                ELSE (CHOOSE i \in ats : \A j \in ats : j <= i) + 1
        colons == {i \in from..Len(authority) : authority[i] = ":"}
        to == IF colons = {} THEN Len(authority)
              ELSE (CHOOSE i \in colons : \A j \in colons : i <= j) - 1
        host == LowerText(SubSeq(authority, from, to))
    IN  IF StartsWithText(host, TxtWww) THEN SubSeq(host, 5, Len(host))
        ELSE host
ClaimHost(url) ==
    The({ClaimHostOf(authority) : authority \in {ClaimAuthority(url)}})
PlatformHosts == {HostYoutube, HostMobile, HostMusic, HostShort}
HasAuthority(url) == Contains(url, <<"/", "/">>)
ForeignHost(url) == HasAuthority(url) /\ ClaimHost(url) \notin PlatformHosts

\* the input errors of C14
EmptyQuery == request.op = "search" /\ Strip(request.text) = <<>>
BadAppId == request.op = "download" /\ request.app_id <= 0
ForeignUrl ==
    /\ request.op \in {"preview", "download"}
    /\ request.op = "download" => request.app_id > 0
    /\ ForeignHost(request.text)

\* C13 as stated: with no tool located, every media operation fails with
\* ToolUnavailable, whatever its input.
C13_ToolUnavailableForEveryInput ==
    (Called /\ ToolMissing) => Failed(ToolUnavailable)

\* C13 amended: with no tool located, every media operation fails without
\* starting a process; the error is ToolUnavailable, except that an empty
\* query and an app id that is not positive are refused first, with
\* InvalidQuery and InvalidAppId.
C13_ToolUnavailableUnlessRefusedFirst ==
    (Called /\ ToolMissing) =>
        /\ launched = <<>>
        /\ IF EmptyQuery THEN Failed(InvalidQuery)
           ELSE IF BadAppId THEN Failed(InvalidAppId)
           ELSE Failed(ToolUnavailable)

\* a preview of a foreign URL with no tool located fails with
\* ToolUnavailable
C13_Witness ==
    /\ request.op = "preview"
    /\ request.text = TxtVimeoUrl
    /\ ToolMissing
    /\ Failed(ToolUnavailable)

\* C14 as stated: an empty query, an app id that is not positive and a URL
\* with a foreign host fail with InvalidQuery, InvalidAppId and
\* UnsupportedHost, no process started and the registry unchanged.
C14_InputErrorsBeforeAnyLaunch ==
    /\ [][(reply'.kind = "raised" /\ launched' = <<>>)
              => tracks' = tracks]_vars
    /\ [](/\ EmptyQuery => Failed(InvalidQuery) /\ launched = <<>>
          /\ BadAppId => Failed(InvalidAppId) /\ launched = <<>>
          /\ ForeignUrl => Failed(UnsupportedHost) /\ launched = <<>>)

\* C14 amended: the same, a foreign host failing with UnsupportedHost when
\* the tool is located and with ToolUnavailable when it is not.
C14_InputErrorsToolFirstForUrls ==
    /\ [][(reply'.kind = "raised" /\ launched' = <<>>)
              => tracks' = tracks]_vars
    /\ [](/\ EmptyQuery => Failed(InvalidQuery) /\ launched = <<>>
          /\ BadAppId => Failed(InvalidAppId) /\ launched = <<>>
          /\ ForeignUrl =>
                /\ launched = <<>>
                /\ IF ToolMissing THEN Failed(ToolUnavailable)
                   ELSE Failed(UnsupportedHost))

\* a download for a foreign URL is refused with the tool located and a
\* registry that holds an entry
C14_Witness ==
    /\ request.op = "download"
    /\ request.text = TxtVimeoUrl
    /\ ~ToolMissing
    /\ Failed(UnsupportedHost)
    /\ launched = <<>>
    /\ tracks # NoTracks

\* the characters of a video id
IdChars ==
    Range(UpperLetters) \cup Range(LowerLetters) \cup Range(Digits)
        \cup {"-", "_"}
BareId(text) == text # <<>> /\ \A i \in 1..Len(text) : text[i] \in IdChars

\* a preview or a download was asked for a non-empty URL with the tool
\* located
UrlCall ==
    /\ request.op \in {"preview", "download"}
    /\ reply.kind # "none"
    /\ ~ToolMissing
    /\ Strip(request.text) # <<>>

\* C15: every URL handed to the tool by preview_stream() and
\* download_audio() has a host that, a leading "www." stripped, is one of
\* the platform hosts; every other non-empty input fails with
\* UnsupportedHost and no command; a bare video id becomes the watch URL of
\* exactly that id.
C15_OnlyPlatformHostsReachTheTool ==
    UrlCall =>
        /\ IF launched = <<>> THEN Failed(UnsupportedHost)
           ELSE /\ HasAuthority(launched[1].text)
                /\ ClaimHost(launched[1].text) \in PlatformHosts
        /\ BareId(Strip(request.text)) =>
               /\ launched # <<>>
               /\ launched[1].text = TxtWatchUrl \o Strip(request.text)

\* the id dQw4w9WgXcQ was handed to the tool as its watch URL by a download
C15_Witness ==
    /\ request.op = "download"
    /\ request.text = VideoId
    /\ launched # <<>>
    /\ launched[1].text = TxtWatchUrl \o VideoId
    /\ reply.kind = "returned"

\* a host that only begins with a platform host was refused
C15_WitnessRefused ==
    /\ UrlCall
    /\ request.text = TxtHttps \o HostYoutube \o TxtEvilTail
    /\ Failed(UnsupportedHost)

(***************************************************************************)
(* The fields of an output line of a search as the tool printed them: the  *)
(* line split at its tabs, each field without the blanks around it.        *)
(***************************************************************************)
ClaimFields(raw) ==
    The({[i \in 1..Len(parts) |-> Strip(parts[i])] :
            parts \in {Split(raw, Tab)}})
ClaimId(raw) == ClaimFields(raw)[1]
ClaimDuration(raw) ==
    The({IF Len(fields) >= 4 THEN fields[4] ELSE <<>> :
            fields \in {ClaimFields(raw)}})

\* the duration written by a text is above `limit` seconds
Above(text, f, limit) ==
    CASE f.kind = "number" ->
             /\ ~f.negative
             /\ f.whole > limit \/ (f.whole = limit /\ f.fraction)
      [] f.kind = "inf" -> text[1] # "-"
      [] OTHER -> FALSE
LongerThan(text, limit) ==
    The({Above(text, f, limit) : f \in {FloatOf(text)}})

\* the text is absent or writes no number
NoSeconds(text) == text = <<>> \/ FloatOf(text).kind = "ValueError"

ClaimLimit == 900

\* a search whose tool ended with exit code 0
SearchDone ==
    /\ request.op = "search"
    /\ toolRun.kind = "completed"
    /\ toolRun.result.returncode = 0

\* every line has an id and a title
WellFormed(lines) ==
    \A i \in 1..Len(lines) :
        Len(ClaimFields(lines[i])) >= 2 /\ ClaimId(lines[i]) # <<>>

\* C16: of the output lines that have an id, exactly those whose duration
\* is not above 900 seconds are returned as hits, in their order; a hit
\* whose duration field is absent or writes no number has its duration
\* unset, and no hit has a duration above 900.
C16_NoHitLongerThan900 ==
    (SearchDone /\ WellFormed(toolRun.result.stdout)) =>
        LET kept == SelectSeq(toolRun.result.stdout,
                              LAMBDA l : ~LongerThan(ClaimDuration(l),
                                                     ClaimLimit))
        IN  /\ reply.kind = "returned"
            /\ Len(reply.hits) = Len(kept)
            /\ \A i \in 1..Len(kept) :
                 /\ reply.hits[i].id = ClaimId(kept[i])
                 /\ reply.hits[i].duration.set =>
                        reply.hits[i].duration.seconds <= ClaimLimit
                 /\ NoSeconds(ClaimDuration(kept[i])) =>
                        ~reply.hits[i].duration.set

\* C17: a line whose first tab-separated field is empty gives no hit: every
\* hit has the id of a line that has one, and there are no more hits than
\* such lines.
C17_NoHitWithoutId ==
    (SearchDone /\ reply.kind = "returned") =>
        LET lines == toolRun.result.stdout
            with == {j \in 1..Len(lines) : ClaimId(lines[j]) # <<>>}
        IN  /\ Len(reply.hits) <= Cardinality(with)
            /\ \A i \in 1..Len(reply.hits) :
                 \E j \in with : reply.hits[i].id = ClaimId(lines[j])

(***************************************************************************)
(* What a download finds once its tool has ended: the files named by the   *)
(* printed lines and the audio files of the per-app directory.             *)
(***************************************************************************)
DownloadDone ==
    /\ request.op = "download"
    /\ launched # <<>>
    /\ reply.kind \in {"returned", "raised"}
ToolSucceeded ==
    toolRun.kind = "completed" /\ toolRun.result.returncode = 0

DownloadIncomplete == Error("RuntimeError", TxtNoAudioFile)

\* an existing regular file with a supported audio extension
AudioFile(path) ==
    /\ path \in library
    /\ LinkTarget(path) \in library
    /\ LinkTarget(path) \notin Directories
    /\ Extension(path) \in SUPPORTED_AUDIO_EXTENSIONS

ClaimDir == DownloadsDir \o <<"/">> \o Str(request.app_id)

\* the files named by the printed lines that are not blank, a relative
\* name taken in the per-app directory and a link followed
PrintedPaths ==
    LET stdout == toolRun.result.stdout
        lines == SelectSeq([i \in 1..Len(stdout) |-> Strip(stdout[i])],
                           LAMBDA l : l # <<>>)
    IN  [i \in 1..Len(lines) |->
            Resolve(IF lines[i][1] = "/" THEN lines[i]
                    ELSE ClaimDir \o <<"/">> \o lines[i])]
PrintedAudio == {i \in DOMAIN PrintedPaths : AudioFile(PrintedPaths[i])}
DirAudio == {path \in library : Parent(path) = ClaimDir /\ AudioFile(path)}
Latest ==
    CHOOSE path \in DirAudio : \A other \in DirAudio :
        Mtime(other) <= Mtime(path)

\* C18 as stated: after a successful run a printed audio file is returned
\* whenever there is one, the latest audio file of the per-app directory
\* when there is none, and the download fails with DownloadIncomplete when
\* there is neither.
C18_PrintedPathElseLatest ==
    (DownloadDone /\ ToolSucceeded) =>
        IF PrintedAudio # {}
        THEN /\ reply.kind = "returned"
             /\ \E i \in PrintedAudio : reply.path = PrintedPaths[i]
        ELSE IF DirAudio # {}
        THEN reply.kind = "returned" /\ reply.path = Latest
        ELSE Failed(DownloadIncomplete)

\* the file a download settles on: the last printed audio file, else the
\* latest of the directory, else none
Chosen ==
    IF PrintedAudio # {}
    THEN PrintedPaths[CHOOSE i \in PrintedAudio :
                          \A j \in PrintedAudio : j <= i]
    ELSE IF DirAudio # {} THEN Latest
    ELSE None

\* C18 amended: the file is the last printed audio file, else the latest
\* of the directory; it is returned unless it cannot be opened for
\* reading, in which case the download fails with PermissionError.
C18_LastPrintedElseLatestIfReadable ==
    (DownloadDone /\ ToolSucceeded) =>
        IF Chosen = None THEN Failed(DownloadIncomplete)
        ELSE IF LinkTarget(Chosen) \in Unreadable
        THEN reply.kind = "raised" /\ reply.error.type = "PermissionError"
        ELSE reply.kind = "returned" /\ reply.path = Chosen

\* of two printed lines only the second names an audio file, and it is the
\* one returned although the directory holds a later audio file
C18_Witness ==
    /\ DownloadDone
    /\ toolRun = Printed(<<PathCover, PathSong>>)
    /\ library = {PathCover, PathSong, PathLocked}
    /\ reply.kind = "returned"
    /\ reply.path = PathSong

\* C19: a download that returns an outcome returns the path of an existing
\* regular file with a supported audio extension, and its tool ended with
\* exit code 0.
C19_ReturnedPathIsAudioFile ==
    (request.op = "download" /\ reply.kind = "returned") =>
        /\ ToolSucceeded
        /\ Extension(reply.path) \in SUPPORTED_AUDIO_EXTENSIONS
        /\ reply.path \in library
        /\ LinkTarget(reply.path) \in library
        /\ LinkTarget(reply.path) \notin Directories

\* the file behind a printed link is returned, its extension in capitals
C19_Witness ==
    /\ request.op = "download"
    /\ reply.kind = "returned"
    /\ toolRun = Printed(<<PathLink>>)
    /\ reply.path = PathReal
    /\ Str(request.app_id) \in DOMAIN tracks
    /\ tracks[Str(request.app_id)].path = PathReal

\* C20 as stated: an identifier is in the result only if it is keyed
\* directly under a block named "apps" that stands inside no "apptickets"
\* block, at whatever depth; and every identifier keyed directly under an
\* "apps" block that stands inside no other "apps" block is in the result.
C20_NothingFromInsideAppTickets ==
    /\ app_ids \subseteq clear
    /\ direct \subseteq app_ids

\* C20 amended: the result is exactly the set of the identifiers keyed
\* directly under a block named "apps" that stands inside no other "apps"
\* block; the block is known by its name alone, whatever encloses it.
C20_ExactlyKeyedUnderApps == app_ids = direct

\* the file of the example has been read: "apps" holding "440", then
\* its sibling "apptickets" holding "9999"
C20_Witness ==
    /\ scanned = 8
    /\ 440 \in app_ids
    /\ 9999 \notin app_ids
    /\ blocks = <<>>
    /\ current_section = None
    /\ last_name = None
    /\ 9999 \notin clear

(***************************************************************************)
(* Claims about the scanner's steps.  A line that opens a block makes      *)
(* `blocks` longer, a line that closes one makes it shorter, and           *)
(* `last_name` is the quoted name that stood alone on the last line that   *)
(* was not blank.                                                          *)
(***************************************************************************)
MaxIdentifier == 9999999
Outside == current_section = None
OpensBlock == Len(blocks') > Len(blocks)
ClosesBlock == Len(blocks') < Len(blocks)

\* C21: an identifier is added only by a line read at depth exactly 1 of
\* the section, directly under its "apps" block, that is a quoted token of
\* 1 to 7 digits with a positive value, and it is that value which is
\* added; the result is a subset of 1..9999999.
C21_OnlyPositiveTokensAtDepthOne ==
    /\ [][app_ids' # app_ids =>
             /\ ~Outside
             /\ depth = 1
             /\ UnderApps
             /\ Len(last_name') \in 1..7
             /\ IsDigits(last_name')
             /\ DigitsValue(last_name') > 0
             /\ app_ids' = app_ids \cup {DigitsValue(last_name')}]_vars
    /\ [](\A id \in app_ids : id \in 1..MaxIdentifier)

\* "0" has been read at depth 1 after "440" and only 440 is in the result
C21_Witness ==
    /\ current_section = TxtApps
    /\ depth = 1
    /\ last_name = <<"0">>
    /\ app_ids = {440}

\* tokens have been read at depth 2 and nothing was added
C21_WitnessDeeper ==
    /\ current_section = TxtApps
    /\ depth = 2
    /\ last_name = <<"9", "9", "9", "9">>
    /\ app_ids = {}

\* C27: the scanner goes from outside into the section only on a "{" line
\* whose last non-blank line before it was the quoted name "apps" in any
\* case, and then it does; outside, the pending name is set exactly when
\* the last non-blank line was that name, and a "{" line without it leaves
\* the scanner outside at depth 0.
C27_EntersOnlyOnBraceAfterTargetName ==
    /\ [][(Outside /\ ~Outside') =>
             /\ last_name = TxtApps
             /\ blocks' = Append(blocks, TxtApps)
             /\ current_section' = TxtApps
             /\ pending_section' = None
             /\ depth' = 1]_vars
    /\ [][(Outside /\ OpensBlock) =>
             IF last_name = TxtApps THEN ~Outside'
             ELSE Outside' /\ depth' = 0 /\ pending_section' = None]_vars
    /\ [](Outside =>
             pending_section = IF last_name = TxtApps THEN TxtApps
                               ELSE None)

\* the section has been entered by the third line read
C27_Witness ==
    /\ scanned = 3
    /\ current_section = TxtApps
    /\ depth = 1
    /\ blocks = <<TxtApps>>
    /\ pending_section = None

\* a "{" that followed another name than "apps" has left the scanner
\* outside
C27_WitnessIgnored ==
    /\ Outside
    /\ blocks = <<TxtAppTickets>>
    /\ depth = 0
    /\ pending_section = None

\* C28: the depth is never negative, the scanner is inside the section
\* exactly when the depth is at least 1, the pending and the current
\* section are never both set; the "}" read at depth 1 puts the scanner
\* outside at depth 0, and from outside a "{" read with a pending name
\* enters the section at depth 1, before or after an earlier section.
C28_DepthTellsInside ==
    /\ [](/\ depth >= 0
          /\ ~Outside <=> depth >= 1
          /\ ~(pending_section # None /\ current_section # None))
    /\ [][(~Outside /\ depth = 1 /\ ClosesBlock) =>
             Outside' /\ depth' = 0 /\ pending_section' = None]_vars
    /\ [][(Outside /\ pending_section # None /\ OpensBlock) =>
             current_section' = pending_section /\ depth' = 1]_vars

\* a section that held "440" has been closed by the fourth line read
C28_Witness ==
    /\ scanned = 4
    /\ Outside
    /\ depth = 0
    /\ blocks = <<>>
    /\ app_ids = {440}


(***************************************************************************)
(* C22: the lookups against the community site that are in flight.         *)
(***************************************************************************)
\* the identifiers whose lookup has been handed to a thread and has not
\* ended
InFlight == {id \in DOMAIN tasks : tasks[id] = "lookup"}
Waiting == {id \in DOMAIN tasks : tasks[id] = "pending"}

\* C22: at every moment of a name resolution at most 2 lookups against the
\* community site are in flight, however many identifiers the bulk phase
\* left without a name and in whatever order the lookups end.
C22_AtMostTwoLookupsInFlight ==
    /\ Cardinality(InFlight) <= 2
    /\ names_pc # "community" => InFlight = {}

\* two lookups are in flight while two more identifiers wait
C22_Witness ==
    /\ names_pc = "community"
    /\ Cardinality(InFlight) = 2
    /\ Cardinality(Waiting) = 2

\* a lookup has ended and a waiting task has taken its place
C22_WitnessRefilled ==
    /\ names_pc = "community"
    /\ Cardinality(InFlight) = 2
    /\ Cardinality(Waiting) = 1
    /\ \E id \in DOMAIN tasks : tasks[id] = "unnamed"

(***************************************************************************)
(* C23: the environment _run_command hands to the process.                 *)
(***************************************************************************)
Redirecting == {"LD_LIBRARY_PATH", "PYTHONHOME", "PYTHONPATH"}
Set(mapping) == IF mapping = None THEN {} ELSE DOMAIN mapping

\* C23: for every inherited environment and every override mapping, the
\* environment of the launched process holds LD_LIBRARY_PATH, PYTHONHOME
\* and PYTHONPATH only where the overrides set them; every override is
\* present with the caller's value; every other inherited variable is
\* passed through unchanged, and nothing else is added.
C23_ChildEnvironment ==
    spawned =>
        /\ \A name \in Redirecting :
               name \in DOMAIN run_env => name \in Set(overrides)
        /\ \A name \in Set(overrides) :
               name \in DOMAIN run_env /\ run_env[name] = overrides[name]
        /\ \A name \in (DOMAIN environ \ Redirecting) \ Set(overrides) :
               name \in DOMAIN run_env /\ run_env[name] = environ[name]
        /\ DOMAIN run_env \subseteq DOMAIN environ \cup Set(overrides)

\* the three variables are inherited, one of them is set again by the
\* overrides, and an inherited variable is replaced by an override
C23_Witness ==
    /\ spawned
    /\ Redirecting \subseteq DOMAIN environ
    /\ Set(overrides) = {"PYTHONPATH", "PATH"}
    /\ "PATH" \in DOMAIN environ /\ environ["PATH"] # overrides["PATH"]
    /\ "HOME" \in DOMAIN environ
    /\ DOMAIN run_env = {"PYTHONPATH", "PATH", "HOME"}

\* no overrides: the three inherited variables are gone
C23_WitnessStripped ==
    /\ spawned
    /\ Redirecting \subseteq DOMAIN environ
    /\ Set(overrides) = {}
    /\ DOMAIN run_env = DOMAIN environ \ Redirecting
    /\ DOMAIN run_env # {}

(***************************************************************************)
(* C24: the lengths of the texts update_yt_dlp reports.                    *)
(***************************************************************************)
MessageLimit == 280
AttemptLimit == 220

\* C24: whatever the length of the error texts, the message of the error
\* raised when every strategy has failed has at most 280 characters, and
\* what each attempt contributes (the text of the environment build, the
\* text of the package installer, the shortened text of the download, and
\* the summary made of them) has at most 220 characters.
C24_BoundedMessage ==
    /\ pc = "raised" => Len(message) <= MessageLimit
    /\ Len(venvError) <= AttemptLimit
    /\ Len(pipError) <= AttemptLimit
    /\ Len(error) <= MessageLimit
    /\ (pc = "raised" /\ raisedFrom = "update") =>
           /\ message = TxtFailedToUpdate \o Summary
           /\ Len(Summary) <= AttemptLimit
           /\ Len(TrimMessage(error, TrimSummaryLimit)) <= AttemptLimit

\* every strategy has failed with a text longer than its limit, and each
\* text has been cut
C24_Witness ==
    /\ AllThreeFailed
    /\ Len(error) = MessageLimit
    /\ Len(venvError) = AttemptLimit
    /\ Len(pipError) = AttemptLimit
    /\ Len(message) = Len(TxtFailedToUpdate) + AttemptLimit

(***************************************************************************)
(* C25: the answer of update_yt_dlp after the renamed binary has failed    *)
(* its version check.                                                      *)
(***************************************************************************)
\* lines 404-413: the binary was renamed into place and printed no version
PostCheckFailed == error = TxtNotExecutable \o SettingsDir \o TxtBinYtDlp

\* C25: when the downloaded binary has been renamed into place and has
\* failed its version check, update_yt_dlp reports success only with a tool
\* of another provenance (private environment, search path or user
\* install), never with the binary that failed the check.
C25_SuccessNeverRestsOnFailedBinary ==
    (pc = "returned" /\ PostCheckFailed /\ result.installed) =>
        /\ result.source \in {"venv", "system"}
        /\ result.path # "bin/yt-dlp"

\* the failed binary is the tool of the reported success
C25_Reached ==
    /\ pc = "returned"
    /\ PostCheckFailed
    /\ result.installed
    /\ result.source = "local"
    /\ result.version = ""
    /\ Len(pipError) > 0

(***************************************************************************)
(* C26: the temporary file of the download.                                *)
(***************************************************************************)
Rejections == {i \in 1..Len(dlLog) : dlLog[i].outcome = "failed"}
Ended == pc \in {"returned", "raised"}

C26_WitnessRaised ==
    /\ pc = "raised"
    /\ raisedFrom = "update"
    /\ Cardinality(Rejections) = Len(dlLog)
    /\ Len(dlLog) >= UrlCount
    /\ ~tempPath.exists

(***************************************************************************)
(* C30: the registry after a download that has succeeded.                  *)
(***************************************************************************)
\* the step in which download_youtube_audio returns
DownloadReturns == reply.kind = "running" /\ reply'.kind = "returned"
DownloadKey == Str(request.app_id)

\* the volume, start offset and loop setting a store finds for a key
Kept(registry, key) ==
    IF key \in DOMAIN registry
    THEN <<registry[key].volume, registry[key].start_offset,
           registry[key].loop>>
    ELSE <<100, 0, TRUE>>

\* the entry keeps its settings, and no other key is touched
SettingsKept ==
    /\ DOMAIN tracks' = DOMAIN tracks \cup {DownloadKey}
    /\ <<tracks'[DownloadKey].volume, tracks'[DownloadKey].start_offset,
         tracks'[DownloadKey].loop>> = Kept(tracks, DownloadKey)
    /\ \A key \in DOMAIN tracks \ {DownloadKey} : tracks'[key] = tracks[key]

\* C30: after a download that has succeeded, the registry's entry for the
\* app id has the returned path and file name and the volume, start offset
\* and loop setting of the entry that was there just before the store
\* (1.0, 0.0 and true when there was none); no other key is changed.
C30_EntryHasReturnedPath ==
    [][DownloadReturns =>
          /\ SettingsKept
          /\ tracks'[DownloadKey].path = reply'.path
          /\ tracks'[DownloadKey].filename = reply'.filename]_vars

\* what the code does: the entry has the resolved form of the returned path
C30_EntryHasResolvedPath ==
    [][DownloadReturns =>
          /\ SettingsKept
          /\ tracks'[DownloadKey].path = Resolve(reply'.path)
          /\ tracks'[DownloadKey].filename = reply'.filename]_vars

\* the download has returned a link and the registry has its target
C30_Reached ==
    /\ request.op = "download"
    /\ reply.kind = "returned"
    /\ reply.path = PathLink
    /\ tracks[Str(request.app_id)].path = PathReal
    /\ tracks[Str(request.app_id)].filename = Name(PathLink)

(***************************************************************************)
(* C29: the registry under requests that overlap.                          *)
(***************************************************************************)
\* the keys whose entry a step adds, removes or changes
Touched ==
    {key \in DOMAIN tracks \cup DOMAIN tracks' :
         \/ key \notin DOMAIN tracks
         \/ key \notin DOMAIN tracks'
         \/ tracks'[key] # tracks[key]}

Settings(entry) == <<entry.volume, entry.start_offset, entry.loop>>
Place(entry) == <<entry.app_id, entry.path, entry.filename>>

\* a step that sets one of volume, start offset and loop of an entry and
\* leaves the rest of it as it was just before the step
OneSetting(key) ==
    /\ key \in DOMAIN tracks /\ key \in DOMAIN tracks'
    /\ Place(tracks'[key]) = Place(tracks[key])
    /\ Cardinality({i \in 1..3 :
           Settings(tracks'[key])[i] # Settings(tracks[key])[i]}) = 1

\* a step that stores a file for a key with the settings the key had just
\* before the step
Stored(key) ==
    /\ key \in DOMAIN tracks'
    /\ Settings(tracks'[key]) = Kept(tracks, key)
    /\ tracks'[key].path \in library
    /\ tracks'[key].app_id \in {1, 2} /\ Str(tracks'[key].app_id) = key

\* C29: however the requests overlap, every step that changes the registry
\* is one whole mutation applied to the registry as it is at that step: it
\* touches one key, and it removes the entry, or sets one setting of it, or
\* stores a file with the settings of the entry that was there just before
\* the step. A download that ends stores with the settings found at its
\* end, not with those found when it was called, so no update made in
\* between is lost.
C29_EveryMutationIsWhole ==
    [][/\ Cardinality(Touched) <= 1
       /\ \A key \in Touched :
              \/ key \in DOMAIN tracks /\ key \notin DOMAIN tracks'
              \/ OneSetting(key)
              \/ Stored(key)
       /\ DownloadReturns =>
              /\ Touched \subseteq {DownloadKey}
              /\ Stored(DownloadKey)]_vars

\* while a download for a key is running, another request has changed the
\* volume and the start offset of the key's entry
C29_Witness ==
    /\ reply.kind = "running"
    /\ Str(request.app_id) \in DOMAIN tracks
    /\ tracks[Str(request.app_id)].volume = 0
    /\ tracks[Str(request.app_id)].start_offset = 30
    /\ tracks[Str(request.app_id)].path = PathCover

\* the download has ended and its entry has the file of the download and
\* settings that no entry had at the start
C29_WitnessStored ==
    /\ reply.kind = "returned"
    /\ request.op = "download"
    /\ DOMAIN tracks = {Str(1), Str(2)}
    /\ tracks[Str(request.app_id)].path = PathSong
    /\ tracks[Str(request.app_id)].volume = 55
    /\ tracks[Str(request.app_id)].loop

(***************************************************************************)
(* C31: the order of the bulk lookups and the community lookups.           *)
(***************************************************************************)
BulkChunkLimit == 20
\* no chunk is with a thread and no chunk is still to come
BulkOver == chunk = <<>> /\ index >= Len(unique_ids)
\* the identifiers the bulk phase has named
NamedByStore ==
    {id \in Range(unique_ids) :
         /\ StrId(id) \in DOMAIN resolved_names
         /\ resolved_names[StrId(id)] = "store"}

\* C31: every bulk lookup, over a chunk of at most 20 identifiers, has
\* ended before a lookup against the community site starts; such a lookup
\* starts only for an identifier the bulk phase left without a name, and at
\* most once for each identifier.
C31_CommunityOnlyAfterBulk ==
    /\ [](Len(chunk) <= BulkChunkLimit)
    /\ [](started # <<>> => BulkOver)
    /\ [](\A i, j \in 1..Len(started) : started[i] = started[j] => i = j)
    /\ [](Range(started) \subseteq Range(unique_ids) \ NamedByStore)
    /\ [][started' # started =>
              /\ BulkOver
              /\ \E id \in Range(unique_ids) \ NamedByStore :
                     /\ id \notin Range(started)
                     /\ started' = Append(started, id)]_vars
    /\ [][(chunk' # chunk /\ chunk' # <<>>) =>
              started = <<>> /\ started' = <<>>]_vars

\* two chunks have been looked up, the store has named twenty identifiers,
\* and the lookups of the two others have started
C31_Witness ==
    /\ names_pc = "community"
    /\ Len(unique_ids) > BulkChunkLimit
    /\ index >= 2 * BulkChunkLimit
    /\ Cardinality(NamedByStore) = BulkChunkLimit
    /\ Len(started) = 2
    /\ Range(started) = Range(unique_ids) \ NamedByStore

(***************************************************************************)
(* C32: the error of an operation whose tool has exited non-zero.          *)
(***************************************************************************)
ErrorTextLimit == 220

\* the operation has ended and its tool had exited with a non-zero status
ExitedNonZero ==
    /\ toolRun.kind = "completed"
    /\ toolRun.result.returncode # 0
    /\ reply.kind # "running"

HasText(line) == \E i \in 1..Len(line) : line[i] # " "
TextLines(lines) == {i \in 1..Len(lines) : HasText(lines[i])}
\* the last line of a stream that is not blank
LastText(lines) ==
    lines[CHOOSE i \in TextLines(lines) : \A j \in TextLines(lines) : j <= i]

GenericText ==
    IF request.op = "search" THEN TxtSearchFailed
    ELSE IF request.op = "preview" THEN TxtPreviewFailed
    ELSE TxtDownloadRunFailed

\* white space collapsed, and the text cut to the limit with three dots
Shortened(text) ==
    LET cleaned == JoinSplit(text)
    IN  IF Len(cleaned) <= ErrorTextLimit THEN cleaned
        ELSE SubSeq(cleaned, 1, ErrorTextLimit - 3) \o <<".", ".", ".">>

\* C32 as stated: when the tool exits non-zero in search, preview_stream or
\* download_audio, the operation fails with an execution error whose
\* message is the last non-empty line of stderr if stderr is non-empty,
\* otherwise the last non-empty line of stdout, otherwise the generic text
\* of the operation.
C32_StderrElseStdoutElseGeneric ==
    ExitedNonZero =>
        /\ reply.kind = "raised"
        /\ reply.error.type = "RuntimeError"
        /\ reply.error.message =
               IF TextLines(toolRun.result.stderr) # {}
               THEN LastText(toolRun.result.stderr)
               ELSE IF TextLines(toolRun.result.stdout) # {}
               THEN LastText(toolRun.result.stdout)
               ELSE GenericText

\* C32 amended: the message is made of the last non-empty lines of the
\* streams: the line of stderr, " | " and the line of stdout when both
\* streams are non-empty, the line of the one stream that is non-empty
\* otherwise, with white space collapsed and cut to 220 characters; the
\* generic text of the operation when both are empty.
C32_BothStreamsJoined ==
    ExitedNonZero =>
        /\ reply.kind = "raised"
        /\ reply.error.type = "RuntimeError"
        /\ reply.error.message =
               IF /\ TextLines(toolRun.result.stderr) # {}
                  /\ TextLines(toolRun.result.stdout) # {}
               THEN Shortened(LastText(toolRun.result.stderr)
                                  \o <<" ", "|", " ">>
                                  \o LastText(toolRun.result.stdout))
               ELSE IF TextLines(toolRun.result.stderr) # {}
               THEN Shortened(LastText(toolRun.result.stderr))
               ELSE IF TextLines(toolRun.result.stdout) # {}
               THEN Shortened(LastText(toolRun.result.stdout))
               ELSE GenericText

\* a download whose tool wrote to both streams has failed with both lines
C32_Witness ==
    /\ ExitedNonZero
    /\ request.op = "download"
    /\ toolRun.result = ResFailLines
    /\ reply.kind = "raised"
    /\ Len(reply.error.message) > Len(TxtStream)
    /\ Contains(reply.error.message, <<" ", "|", " ">> \o TxtStream)

\* a search whose tool wrote nothing has failed with the generic text
C32_WitnessGeneric ==
    /\ ExitedNonZero
    /\ request.op = "search"
    /\ toolRun.result = ResFailSilent
    /\ reply.error.message = TxtSearchFailed

\* the joined lines were longer than the limit and have been cut
C32_WitnessCut ==
    /\ ExitedNonZero
    /\ toolRun.result = ResFailBothLong
    /\ Len(reply.error.message) = ErrorTextLimit

=============================================================================
